---- MODULE Spec2Model ----
(***************************************************************************)
(* Verification model of the gateway connection substrate of discord-sb.js *)
(*                                                                         *)
(*   FastQueue             src/src/util/FastQueue.js                       *)
(*   GatewaySendScheduler  src/examples/AuthorizeUserApps.js (l. 15-121)   *)
(*   WebSocketShard        src/unnamed/part_002                            *)
(*                                                                         *)
(* The specifications of the module:                                       *)
(*   QSpec      the double-ended ring queue on its own                     *)
(*   Spec       the send scheduler driven by enqueue / process / timer /   *)
(*              clear, with a millisecond clock                            *)
(*   ShimSpec   Spec plus the shard's legacy `ratelimit` accessor          *)
(*   FlowSpec, ConserveSpec  the scheduler with a fair timer, the second   *)
(*              with listeners that enqueue during a dispatch              *)
(*   HbSpec     the shard's heartbeat machinery with a clock               *)
(*   ReconnectSpec, ZombieSpec, SessionSpec  the shard through a second    *)
(*              and a third connection                                     *)
(*   ReadySpec  the shard from READY to its promotion, with fair timers    *)
(*   ChunkSpec  the guild subscription chunker of READY.js                 *)
(*   RestSpec, SettleSpec, RouteSpec, BucketSpec  the REST request         *)
(*              handlers, their routes and their buckets                   *)
(* Each keeps the variables of the others at their initial values.         *)
(***************************************************************************)
EXTENDS Integers, Sequences, FiniteSets, TLC

VARIABLES
    \* ---- QSpec: one FastQueue and its observation ----
    fq,            \* the FastQueue under test
    fqBackCount,   \* number of push() calls so far (value of the next back item)
    fqFrontCount,  \* number of unshift() calls so far
    fqPresent,     \* ghost: the values currently held (independent of the layout)
    fqLast,        \* ghost: the last shift(): returned value and what was present
    \* ---- Spec / ShimSpec: one GatewaySendScheduler ----
    now,           \* Date.now(), in milliseconds
    sched,         \* the scheduler's fields, the armed timers and the dispatch log
    shardOpen,     \* shard.connection?.readyState === WebSocket.OPEN
    nextFrame,     \* payload of the next frame handed to enqueue()
    lastOp,        \* ghost: whether the state results from a clear(), from how many
                   \* in a row, and how much the first of them cancelled
    \* ---- HbSpec: one WebSocketShard (it shares the clock `now`) ----
    shard,         \* the shard's fields, its sockets and timers, and what the
                   \* latest operation did
    \* ---- ChunkSpec: the READY handler's subscription planning ----
    rd,            \* the guilds of the latest READY payload and the subscription
                   \* frames planned for them
    \* ---- RestSpec: the RESTManager's request handlers (clock `now`) ----
    rest,          \* the global counters, the handlers, the requests and what
                   \* the latest step did
    \* ---- RouteSpec: one chain of the API router's proxies ----
    rt,            \* the segments still to be written, those written and the
                   \* state of the proxy reached
    \* ---- BucketSpec: the RESTManager's choice of a request's handler ----
    bk             \* the handler maps, the requests under way and what the
                   \* latest request was given

qvars == <<fq, fqBackCount, fqFrontCount, fqPresent, fqLast>>
svars == <<now, sched, shardOpen, nextFrame, lastOp>>
hvars == <<shard>>
cvars == <<rd>>
rvars == <<rest>>
tvars == <<rt>>
bvars == <<bk>>
vars == <<qvars, svars, hvars, cvars, rvars, tvars, bvars>>

(***************************************************************************)
(* Bounds                                                                  *)
(***************************************************************************)
MaxBackPush  == 34   \* push() calls in a QSpec run: enough to reach a 64-slot ring
MaxFrontPush == 3    \* unshift() calls in a QSpec run
MaxFrontLen  == 2    \* items held on the front stack at once in a QSpec run
MaxTime      == 6    \* the clock of a scheduler run stops here
MaxFrames    == 6    \* frames enqueued in a scheduler run
ShimMaxTime   == 3   \* the same two bounds for the runs that also use the
ShimMaxFrames == 3   \* shard's ratelimit accessor
HbMaxTime     == 5   \* the clock of a shard run stops here
MaxSockets    == 1   \* connections opened in a shard run
MaxGuilds     == 1   \* unavailable guilds announced by a READY
MaxPending    == 1   \* checkReady() calls a READY handler may have deferred
MaxSeq        == 2   \* the gateway's dispatches of a session
ReconnectMaxTime    == 1   \* the same two bounds for the runs that follow
ReadyMaxTime        == 3   \* the clock of the runs from READY to the promotion
ZombieMaxTime       == 2   \* the clock of the runs in which heartbeats go unacknowledged
ReconnectMaxSockets == 2   \* the shard through a reconnect

\* Durations of a shard run, in clock ticks: the heartbeat interval the
\* gateway announces in HELLO and the client options waitGuildTimeout and
\* closeTimeout
HbInterval       == 2
WaitGuildTimeout == 1
CloseTimeout     == 1

\* Scheduler options of the runs (constructor arguments, any positive numbers)
Capacity       == 2
WindowMs       == 3
ImportantBurst == 2

(***************************************************************************)
(* FastQueue                                                               *)
(***************************************************************************)
MIN_BACK_CAPACITY == 16

Undefined == 0     \* an empty array slot / the `undefined` returned by shift()

\* new Array(n)
NewArray(n) == [i \in 1..n |-> Undefined]

\* x & (len - 1): the ring index mask.  len is always 16 * 2^k (see
\* FQBackIsPowerOfTwo), for which the mask is the remainder modulo len.
Mask(x, len) == x % len

\* constructor() without an iterable
FastQueueNew ==
    [front |-> <<>>, back |-> NewArray(MIN_BACK_CAPACITY),
     backHead |-> 0, backTail |-> 0, backLength |-> 0]

\* get length
FQLength(q) == Len(q.front) + q.backLength

\* _resizeBack that copies the slots without following the ring from its head
ResizeBackFromSlotZero(q, newCapacity) ==
    [q EXCEPT
       !.back = [i \in 1..newCapacity |->
                   IF i - 1 < q.backLength /\ i <= Len(q.back) THEN q.back[i] ELSE Undefined],
       !.backHead = 0,
       !.backTail = q.backLength]

\* _resizeBack(newCapacity)
ResizeBack(q, newCapacity) ==
    [q EXCEPT
       !.back = [i \in 1..newCapacity |->
                   IF i - 1 < q.backLength
                   THEN q.back[Mask(q.backHead + (i - 1), Len(q.back)) + 1]
                   ELSE Undefined],
       !.backHead = 0,
       !.backTail = q.backLength]

\* push(value)
FQPush(q, value) ==
    LET q1 == IF q.backLength = Len(q.back) THEN ResizeBack(q, Len(q.back) * 2) ELSE q
    IN  [q1 EXCEPT
           !.back = [q1.back EXCEPT ![q1.backTail + 1] = value],
           !.backTail = Mask(q1.backTail + 1, Len(q1.back)),
           !.backLength = q1.backLength + 1]

\* unshift(value)
FQUnshift(q, value) == [q EXCEPT !.front = Append(q.front, value)]

\* shift(): the value returned
FQShiftValue(q) ==
    IF Len(q.front) > 0 THEN q.front[Len(q.front)]
    ELSE IF q.backLength = 0 THEN Undefined
    ELSE q.back[q.backHead + 1]

\* shift(): the queue left behind
FQShiftQueue(q) ==
    IF Len(q.front) > 0 THEN [q EXCEPT !.front = SubSeq(q.front, 1, Len(q.front) - 1)]
    ELSE IF q.backLength = 0 THEN q
    ELSE
      LET q1 == [q EXCEPT
                   !.back = [q.back EXCEPT ![q.backHead + 1] = Undefined],
                   !.backHead = Mask(q.backHead + 1, Len(q.back)),
                   !.backLength = q.backLength - 1]
      IN  IF q1.backLength = 0
          THEN [q1 EXCEPT !.backHead = 0, !.backTail = 0]
          ELSE IF /\ Len(q1.back) > MIN_BACK_CAPACITY
                  /\ q1.backLength <= Len(q1.back) \div 4
                  /\ q1.backLength >= MIN_BACK_CAPACITY
               THEN ResizeBack(q1, Len(q1.back) \div 2)
               ELSE q1

\* clear()
FQClear(q) == FastQueueNew

(***************************************************************************)
(* QSpec: any sequence of push / unshift / shift on one queue.  push()     *)
(* stores the positive numbers 1, 2, 3, ... in arrival order, unshift()    *)
(* the negative numbers -1, -2, -3, ...                                    *)
(***************************************************************************)
NoShift == [v |-> Undefined, present |-> {}]

QInit ==
    /\ fq = FastQueueNew
    /\ fqBackCount = 0
    /\ fqFrontCount = 0
    /\ fqPresent = {}
    /\ fqLast = NoShift

QPush ==
    /\ fqBackCount < MaxBackPush
    /\ fq' = FQPush(fq, fqBackCount + 1)
    /\ fqBackCount' = fqBackCount + 1
    /\ fqPresent' = fqPresent \cup {fqBackCount + 1}
    /\ fqLast' = NoShift
    /\ UNCHANGED fqFrontCount

QUnshift ==
    /\ fqFrontCount < MaxFrontPush
    /\ Len(fq.front) < MaxFrontLen
    /\ fq' = FQUnshift(fq, -(fqFrontCount + 1))
    /\ fqFrontCount' = fqFrontCount + 1
    /\ fqPresent' = fqPresent \cup {-(fqFrontCount + 1)}
    /\ fqLast' = NoShift
    /\ UNCHANGED fqBackCount

QShift ==
    /\ fqLast' = [v |-> FQShiftValue(fq), present |-> fqPresent]
    /\ fq' = FQShiftQueue(fq)
    /\ fqPresent' = fqPresent \ {FQShiftValue(fq)}
    /\ UNCHANGED <<fqBackCount, fqFrontCount>>

QNext == (QPush \/ QUnshift \/ QShift) /\ UNCHANGED <<svars, hvars, cvars, rvars, tvars, bvars>>

(***************************************************************************)
(* GatewaySendScheduler                                                    *)
(*                                                                         *)
(* _tokens is a real number in the code.  The model stores                 *)
(* tokens = _tokens * windowMs, an integer: one millisecond refills        *)
(* `capacity` units, one frame costs `windowMs` units (OneToken), the      *)
(* bucket holds capacity * windowMs units (FullBucket).                    *)
(***************************************************************************)
OneToken   == WindowMs
FullBucket == Capacity * WindowMs

NoTimer == 0      \* this._timer === null

Max2(a, b) == IF a >= b THEN a ELSE b
Min2(a, b) == IF a <= b THEN a ELSE b
MaxOf(S) == CHOOSE x \in S : \A y \in S : y <= x
MinOf(S) == CHOOSE x \in S : \A y \in S : x <= y

\* constructor(shard, options): the fields, then the model's bookkeeping:
\*   armed    the pending setTimeout timers, as records [id, due]
\*   log      one record per call of shard._send made by the latest operation,
\*            in call order
\*   sentAt   the times of the calls of shard._send of the last windowMs
\*            milliseconds, i.e. those with now - windowMs < time <= now,
\*            counted from the last clear() on (clear() belongs to destroy(),
\*            after which frames go to another connection)
\*   pendI    payloads enqueued as important and neither sent nor cleared
\*   pendN    the same for normal frames
\*   impRun   important frames sent in a row, each while pendN was non-empty
SchedulerNew(t) ==
    [tokens |-> FullBucket, lastRefill |-> t, timer |-> NoTimer, importantStreak |-> 0,
     importantQueue |-> FastQueueNew, normalQueue |-> FastQueueNew,
     armed |-> {}, log |-> <<>>, sentAt |-> <<>>, pendI |-> {}, pendN |-> {}, impRun |-> 0]

\* get length
SchedLength(s) == FQLength(s.importantQueue) + FQLength(s.normalQueue)

\* clearTimeout(this._timer); this._timer = null
CancelTimer(s) ==
    IF s.timer # NoTimer
    THEN [s EXCEPT !.armed = {tm \in @ : tm.id # s.timer}, !.timer = NoTimer]
    ELSE s

\* clear() that leaves the important streak as it was
SchedClearKeepsStreak(s, t) ==
    [CancelTimer(s) EXCEPT
       !.importantQueue = FQClear(@),
       !.normalQueue = FQClear(@),
       !.tokens = FullBucket,
       !.lastRefill = t,
       !.pendI = {}, !.pendN = {}, !.impRun = 0, !.sentAt = <<>>]

\* clear()
SchedClear(s, t) ==
    [CancelTimer(s) EXCEPT
       !.importantQueue = FQClear(@),
       !.normalQueue = FQClear(@),
       !.tokens = FullBucket,
       !.lastRefill = t,
       !.importantStreak = 0,
       !.pendI = {}, !.pendN = {}, !.impRun = 0, !.sentAt = <<>>]

\* _refill(now)
Refill(s, t) ==
    IF t <= s.lastRefill THEN s
    ELSE LET elapsed == t - s.lastRefill
             refill == elapsed * Capacity
         IN  IF refill <= 0 THEN [s EXCEPT !.lastRefill = t]
             ELSE [s EXCEPT !.lastRefill = t,
                            !.tokens = Min2(FullBucket, @ + refill)]

\* _dequeue() that compares the streak with <= instead of <
DequeueChoiceOffByOne(s) ==
    LET hasImportant == FQLength(s.importantQueue) > 0
        hasNormal == FQLength(s.normalQueue) > 0
    IN  IF ~hasImportant /\ ~hasNormal THEN "none"
        ELSE IF hasImportant /\ (~hasNormal \/ s.importantStreak <= ImportantBurst)
             THEN "important"
             ELSE "normal"

\* _dequeue() that serves the important queue whenever it holds a frame
DequeueChoiceImportantFirst(s) ==
    LET hasImportant == FQLength(s.importantQueue) > 0
        hasNormal == FQLength(s.normalQueue) > 0
    IN  IF ~hasImportant /\ ~hasNormal THEN "none"
        ELSE IF hasImportant THEN "important" ELSE "normal"

\* _dequeue(): which queue is served ("important", "normal" or "none")
DequeueChoice(s) ==
    LET hasImportant == FQLength(s.importantQueue) > 0
        hasNormal == FQLength(s.normalQueue) > 0
    IN  IF ~hasImportant /\ ~hasNormal THEN "none"
        ELSE IF hasImportant /\ (~hasNormal \/ s.importantStreak < ImportantBurst)
             THEN "important"
             ELSE "normal"

\* _dequeue(): the frame returned
DequeueValue(s) ==
    CASE DequeueChoice(s) = "none" -> Undefined
      [] DequeueChoice(s) = "important" -> FQShiftValue(s.importantQueue)
      [] DequeueChoice(s) = "normal" -> FQShiftValue(s.normalQueue)

\* _dequeue(): the scheduler left behind
DequeueSched(s) ==
    CASE DequeueChoice(s) = "none" -> s
      [] DequeueChoice(s) = "important" ->
           [s EXCEPT !.importantStreak = @ + 1,
                     !.importantQueue = FQShiftQueue(@),
                     !.pendI = @ \ {FQShiftValue(s.importantQueue)},
                     !.impRun = IF s.pendN # {} THEN @ + 1 ELSE 0]
      [] DequeueChoice(s) = "normal" ->
           [s EXCEPT !.importantStreak = 0,
                     !.normalQueue = FQShiftQueue(@),
                     !.pendN = @ \ {FQShiftValue(s.normalQueue)},
                     !.impRun = 0]

\* shard._send(data), as far as the scheduler is concerned: the call is
\* logged; a shard without an OPEN connection answers with
\* destroy({closeCode: 4000}), whose last step is scheduler.clear().
RawSend(s, before, next, t, open) ==
    LET entry == [id |-> next, important |-> DequeueChoice(before) = "important", at |-> t,
                  pendI |-> before.pendI, pendN |-> before.pendN,
                  tokens |-> before.tokens, impRun |-> before.impRun]
        s1 == [s EXCEPT !.log = Append(@, entry), !.sentAt = Append(@, t)]
    IN  IF open THEN s1 ELSE SchedClear(s1, t)

\* the while loop of process()
RECURSIVE ProcessLoop(_, _, _)
ProcessLoop(s, t, open) ==
    IF s.tokens >= OneToken /\ SchedLength(s) > 0
    THEN IF DequeueValue(s) = Undefined THEN DequeueSched(s)
         ELSE LET s1 == RawSend(DequeueSched(s), s, DequeueValue(s), t, open)
              IN  ProcessLoop([s1 EXCEPT !.tokens = @ - OneToken], t, open)
    ELSE s

\* setTimeout(): the handle of a new timer (handles of fired and cleared
\* timers are never kept, so the smallest free number serves)
FreshTimer(s) == MinOf({i \in 1..(Cardinality(s.armed) + 1) : \A tm \in s.armed : tm.id # i})

\* Math.ceil(a / b) for a >= 0, b > 0
CeilDiv(a, b) == (a + b - 1) \div b

\* _schedule() without the early return on a pending timer
ScheduleAlways(s, t) ==
    LET missing == Max2(OneToken - s.tokens, 0)
        delay == Max2(CeilDiv(missing, Capacity), 1)
        id == MinOf({i \in 1..(Cardinality(s.armed) + 1) : \A tm \in s.armed : tm.id # i})
    IN  [s EXCEPT !.timer = id, !.armed = @ \cup {[id |-> id, due |-> t + delay]}]

\* _schedule()
Schedule(s, t) ==
    IF s.timer # NoTimer THEN s
    ELSE LET missing == Max2(OneToken - s.tokens, 0)
             delay == Max2(CeilDiv(missing, Capacity), 1)
             id == FreshTimer(s)
         IN  [s EXCEPT !.timer = id, !.armed = @ \cup {[id |-> id, due |-> t + delay]}]

\* process() that never arms the wakeup
ProcessWithoutSchedule(s, t, open) ==
    LET s1 == ProcessLoop(Refill(s, t), t, open)
    IN  IF SchedLength(s1) > 0 THEN s1 ELSE CancelTimer(s1)

\* process()
Process(s, t, open) ==
    LET s1 == ProcessLoop(Refill(s, t), t, open)
    IN  IF SchedLength(s1) > 0 THEN Schedule(s1, t) ELSE CancelTimer(s1)

\* the operation that starts: the log of the previous one is dropped
Begin(s) == [s EXCEPT !.log = <<>>]

\* the dispatch times still inside the window that ends at t
RECURSIVE DropOld(_, _)
DropOld(times, t) ==
    IF times # <<>> /\ Head(times) <= t - WindowMs THEN DropOld(Tail(times), t) ELSE times

\* enqueue() that appends important frames instead of prepending them
EnqueueImportantAtBack(s, data, important, t, open) ==
    LET s1 == IF important
              THEN [s EXCEPT !.importantQueue = FQPush(@, data), !.pendI = @ \cup {data}]
              ELSE [s EXCEPT !.normalQueue = FQPush(@, data), !.pendN = @ \cup {data}]
    IN  Process(s1, t, open)

\* enqueue(data, important)
Enqueue(s, data, important, t, open) ==
    LET s1 == IF important
              THEN [s EXCEPT !.importantQueue = FQUnshift(@, data), !.pendI = @ \cup {data}]
              ELSE [s EXCEPT !.normalQueue = FQPush(@, data), !.pendN = @ \cup {data}]
    IN  Process(s1, t, open)

\* the timer callback of _schedule(): this._timer = null; this.process()
TimerCallback(s, t, open) == Process([s EXCEPT !.timer = NoTimer], t, open)

(***************************************************************************)
(* WebSocketShard                                                          *)
(*                                                                         *)
(* The record `shard` holds the fields of the shard, plus                  *)
(*   sockets   the WebSocket objects created so far: readyState, whether   *)
(*             the shard's handlers are still attached (bound), and what   *)
(*             the gateway at the other end has seen: HELLO delivered,     *)
(*             a heartbeat written, the session asked for or established   *)
(*   timers    the pending setTimeout / setInterval timers                 *)
(*   gatewaySeq  the sequence number of the gateway's latest dispatch      *)
(*   closedSeq ghost: the last sequence received in the session whose      *)
(*             socket closed, until that session is resumed or given up,   *)
(*             or a connection ends on which no sequence was received     *)
(*   pendingCheckReady  checkReady() calls the READY handler has deferred  *)
(*   hbSentAt  ghost: when the latest heartbeat since HELLO was sent       *)
(*   ackedSentAt  ghost: hbSentAt as the last HEARTBEAT_ACK found it: when *)
(*             the last acknowledged heartbeat was sent                    *)
(*   excused   ghost: since that ack a timer-driven heartbeat was due      *)
(*             while the previous one was unacknowledged and the status    *)
(*             was Identifying, Resuming or WaitingForGuilds               *)
(*   obs       ghost: what the latest operation did                        *)
(* A timer handle is the number of a timer, Null when the field is null.   *)
(* Frames handed to send() are taken to pass the send scheduler at once    *)
(* (tokens at hand, nothing queued), which Spec examines on its own.       *)
(* Durations are in clock ticks; a timer fires when the clock reaches its  *)
(* due time, before the clock moves on.                                    *)
(***************************************************************************)
Null == 0
None == -1

\* closeSequence holding null, the sequence of a connection on which nothing
\* but HELLO and other packets without s arrived
NullSequence == -2

\* the timeouts the code fixes, in clock ticks
HelloTimeout == 2                   \* 20_000 ms
InvalidSessionDelays == {1}
TimeSpentPeriod == 5                \* 30 * 60 * 1000 ms

\* RouteSpec: segments of a chain
MaxChain == 4

\* RestSpec: clock; requests pushed and retries of a request after which the
\* server stops provoking retries, for a run of many requests and for a run of
\* requests retried often
RestMaxTime == 2
MaxRequests == 3
MaxProvoked == 1
RetriedRequests == 1
MaxRetries == 3

\* client options restGlobalRateLimit, retryLimit, captchaRetryLimit and
\* restTimeOffset
GlobalLimit == 1
RetryLimit == 1
CaptchaRetryLimit == 1
RestTimeOffset == 1

\* the server's retry-after and x-ratelimit-reset-after, in clock units
RetryAfter == 1
ResetAfter == 2

\* an x-ratelimit-remaining above zero
RemainingLeft == 4

\* connect() promises pending at a time
MaxPromises == 2

\* READY handler: guilds per READY payload
MaxGuildList == 3

\* _send: byteSize > 15 * 1024
PayloadLimit == 15 * 1024

\* packed sizes of the frames the application hands to send()
FrameSizes == {PayloadLimit, PayloadLimit + 1}

ForcedStatuses == {"WAITING_FOR_GUILDS", "IDENTIFYING", "RESUMING"}

NoObs == [hb |-> <<>>, closes |-> <<>>, emitted |-> <<>>, sent |-> <<>>, ident |-> <<>>,
          resumed |-> <<>>, frames |-> <<>>, destroyed |-> FALSE, settled |-> {},
          fired |-> "none", watched |-> Null, packet |-> <<>>,
          closed |-> <<>>, repeated |-> FALSE]

\* ghost: the timers whose firing is observed
ObservedTimers == {"wsCloseTimeout", "readyTimeout"}

\* constructor(manager, id); ghost: watched is the connection that destroy()
\* closed when it armed the pending close timeout, zombie the session id held when a zombie connection was
\* declared, until the next IDENTIFY or RESUME
ShardNew ==
    [status |-> "IDLE", connection |-> Null, sessionId |-> Null,
     resumeURL |-> Null, sequence |-> -1, closeSequence |-> 0,
     gatewaySeq |-> 0, closedSeq |-> None,
     lastHeartbeatAcked |-> TRUE, lastPingTimestamp |-> None, closeEmitted |-> FALSE,
     expectedGuilds |-> {},
     helloTimeout |-> Null, wsCloseTimeout |-> Null, heartbeatTimeout |-> Null,
     heartbeatInterval |-> Null, invalidSessionTimeout |-> Null, readyTimeout |-> Null,
     timeSpentSessionInterval |-> Null,
     sockets |-> <<>>, timers |-> {}, pendingCheckReady |-> 0, promises |-> <<>>,
     hbSentAt |-> None, ackedSentAt |-> None, excused |-> FALSE, watched |-> Null,
     zombie |-> Null, hasGuildsIntent |-> TRUE, obs |-> NoObs]

TimerFields == {"helloTimeout", "wsCloseTimeout", "heartbeatTimeout", "heartbeatInterval",
                "invalidSessionTimeout", "readyTimeout", "timeSpentSessionInterval"}

\* connection?.readyState === WebSocket.OPEN
ConnectionOpen(S) == S.connection # Null /\ S.sockets[S.connection].readyState = "OPEN"

\* the events connect() listens to
ConnectEvents == {"READY", "RESUMED", "CLOSE", "INVALID_SESSION", "DESTROYED"}

\* the ShardEvents name of an emitted event; the close timeout's CLOSE carries
\* code 4009
EventName(event) == IF event = "CLOSE_4009" THEN "CLOSE" ELSE event

\* a cleanup() that removes no listener
CleanupNothing(listeners) == listeners

\* cleanup() in connect(): the listeners left of those it registered
Cleanup(listeners) == listeners \ ConnectEvents

\* this.emit(event): every connect() promise listening to the event has its
\* once-listener removed and run, which cleans up and settles the promise
Emit(S, event) ==
    LET e == EventName(event)
        hit == {i \in DOMAIN S.promises : e \in S.promises[i].listeners}
        After(i) == [listeners |-> Cleanup(S.promises[i].listeners \ {e}),
                     settled |-> TRUE]
    IN  [S EXCEPT !.obs.emitted = Append(@, event),
                  !.promises = [i \in DOMAIN @ |-> IF i \in hit THEN After(i) ELSE @[i]],
                  !.obs.settled = @ \cup
                      {[promise |-> i, event |-> e,
                        how |-> IF e \in {"READY", "RESUMED"} THEN "resolved" ELSE "rejected",
                        again |-> S.promises[i].settled,
                        left |-> After(i).listeners] : i \in hit}]

\* setTimeout / setInterval: a handle no field holds and no pending timer has
NewHandle(S) ==
    MinOf({i \in 1..(Cardinality(S.timers) + Cardinality(TimerFields) + 1) :
             /\ \A tm \in S.timers : tm.id # i
             /\ \A f \in TimerFields : S[f] # i})

\* this[field] = setTimeout(callback of `kind`, delay); period > 0 for setInterval
Arm(S, field, kind, delay, period, t) ==
    LET id == NewHandle(S)
    IN  [S EXCEPT ![field] = id,
                  !.timers = @ \cup {[id |-> id, kind |-> kind, due |-> t + delay,
                                      period |-> period]}]

\* clearTimeout(this[field]) / clearInterval(this[field]), the field kept
Disarm(S, field) == [S EXCEPT !.timers = {tm \in @ : tm.id # S[field]}]

\* if (this[field]) { clearTimeout(this[field]); this[field] = null; }
ClearField(S, field) ==
    IF S[field] # Null THEN [Disarm(S, field) EXCEPT ![field] = Null] ELSE S

\* setHeartbeatTimer(-1)
ClearHeartbeatTimer(S) ==
    ClearField(ClearField(ClearField(S, "heartbeatTimeout"), "heartbeatInterval"),
               "timeSpentSessionInterval")

\* setHeartbeatTimer(time): the first heartbeat after a jitter in 0 .. time-1
SetHeartbeatTimer(S, jitter, t) ==
    LET S1 == IF S.heartbeatTimeout # Null THEN Disarm(S, "heartbeatTimeout") ELSE S
        S2 == IF S1.heartbeatInterval # Null THEN Disarm(S1, "heartbeatInterval") ELSE S1
    IN  [Arm(S2, "heartbeatTimeout", "heartbeatTimeout", jitter, 0, t)
            EXCEPT !.hbSentAt = None, !.ackedSentAt = None, !.excused = FALSE]

\* setHelloTimeout(-1)
ClearHelloTimeout(S) == ClearField(S, "helloTimeout")

\* setHelloTimeout()
SetHelloTimeout(S, t) == Arm(S, "helloTimeout", "helloTimeout", HelloTimeout, 0, t)

\* setWsCloseTimeout(-1)
ClearWsCloseTimeout(S) ==
    [(IF S.wsCloseTimeout # Null THEN Disarm(S, "wsCloseTimeout") ELSE S)
        EXCEPT !.wsCloseTimeout = Null, !.watched = Null]

\* setWsCloseTimeout(time)
SetWsCloseTimeout(S, time, t) ==
    Arm(IF S.wsCloseTimeout # Null THEN Disarm(S, "wsCloseTimeout") ELSE S,
        "wsCloseTimeout", "wsCloseTimeout", time, 0, t)

\* _cleanupConnection(): the handlers of the current connection are detached
CleanupConnection(S) == [S EXCEPT !.sockets[S.connection].bound = FALSE]

\* connection.close(closeCode): the socket starts closing
CloseSocket(S, closeCode) ==
    [S EXCEPT !.sockets[S.connection].readyState =
                  IF @ = "CLOSED" THEN "CLOSED" ELSE "CLOSING",
              !.obs.closes = Append(@, [socket |-> S.connection, code |-> closeCode])]

\* destroy({ closeCode, reset, emit })
Destroy(S, closeCode, reset, emit, t) ==
    LET S1 == ClearField(ClearHelloTimeout(ClearHeartbeatTimer(S)), "invalidSessionTimeout")
        S2 == IF S1.connection # Null
              THEN IF ConnectionOpen(S1) THEN CloseSocket(S1, closeCode)
                   ELSE IF emit THEN Emit(CloseSocket(S1, closeCode), "DESTROYED")
                        ELSE CloseSocket(S1, closeCode)
              ELSE IF emit THEN Emit(S1, "DESTROYED") ELSE S1
        S3 == SetWsCloseTimeout(S2, CloseTimeout, t)
    IN  [S3 EXCEPT !.obs.destroyed = TRUE,
                   !.watched = S.connection,
                   !.connection = Null,
                   !.status = "DISCONNECTED",
                   !.closeSequence = IF S.sequence = Null THEN NullSequence
                                     ELSE IF S.sequence # -1 THEN S.sequence ELSE @,
                   !.resumeURL = IF reset THEN Null ELSE @,
                   !.sequence = IF reset THEN -1 ELSE @,
                   !.sessionId = IF reset THEN Null ELSE @,
                   !.closedSeq = IF reset \/ S.sequence = Null THEN None ELSE @]

\* _send(data) that lets a payload one byte over the cap through
ShardWriteOffByOne(S, op, byteSize, t) ==
    IF ~ConnectionOpen(S) THEN Destroy(S, 4000, FALSE, TRUE, t)
    ELSE IF byteSize > PayloadLimit + 1 THEN Emit(S, "SHARD_ERROR")
    ELSE [S EXCEPT !.obs.sent = Append(@, op)]

\* send(data) down to _send(data), the packed payload of byteSize bytes:
\* destroy({ closeCode: 4000 }) without an OPEN socket, SHARD_ERROR for a
\* payload over the cap, else written
ShardWrite(S, op, byteSize, t) ==
    IF ~ConnectionOpen(S) THEN Destroy(S, 4000, FALSE, TRUE, t)
    ELSE IF byteSize > PayloadLimit THEN Emit(S, "SHARD_ERROR")
    ELSE [S EXCEPT !.obs.sent = Append(@, op),
                   !.sockets[S.connection].heartbeats =
                       IF op = "HEARTBEAT" THEN TRUE ELSE @,
                   !.sockets[S.connection].session =
                       CASE op = "IDENTIFY" -> "identify"
                         [] op = "RESUME" -> "resume"
                         [] OTHER -> @]

\* send(data, true) of the shard's own frames, which are small
ShardSend(S, op, t) == ShardWrite(S, op, 1, t)

\* ghost: the time since the last acknowledged heartbeat of the connection
\* was sent, None before an acknowledgement
SinceAck(S, t) == IF S.ackedSentAt = None THEN None ELSE t - S.ackedSentAt

\* the default of sendHeartbeat's parameter ignoreHeartbeatAck
IgnoreAckAlways(status) == TRUE

DefaultIgnoreHeartbeatAck(status) == status \in ForcedStatuses

\* sendHeartbeat that sends whether or not the last heartbeat was acknowledged
SendHeartbeatUnchecked(S, tag, ignoreHeartbeatAck, t) ==
    ShardSend([S EXCEPT !.lastHeartbeatAcked = FALSE, !.lastPingTimestamp = t,
                        !.hbSentAt = t,
                        !.obs.hb = Append(@, [tag |-> tag, status |-> S.status,
                                              acked |-> S.lastHeartbeatAcked,
                                              sinceAck |-> SinceAck(S, t),
                                              excused |-> S.excused,
                                              outcome |-> IF ConnectionOpen(S)
                                                          THEN "sent" ELSE "dropped"])],
              "HEARTBEAT", t)

\* sendHeartbeat(tag, ignoreHeartbeatAck)
SendHeartbeat(S, tag, ignoreHeartbeatAck, t) ==
    LET seen == [tag |-> tag, status |-> S.status, acked |-> S.lastHeartbeatAcked,
                 sinceAck |-> SinceAck(S, t), excused |-> S.excused,
                 outcome |-> IF ConnectionOpen(S) THEN "sent" ELSE "dropped"]
    IN  IF ~ignoreHeartbeatAck /\ ~S.lastHeartbeatAcked
        THEN Destroy([S EXCEPT !.obs.hb = Append(@, [seen EXCEPT !.outcome = "zombie"]),
                               !.zombie = S.sessionId],
                     4009, TRUE, TRUE, t)
        ELSE ShardSend([S EXCEPT !.lastHeartbeatAcked = FALSE, !.lastPingTimestamp = t,
                                 !.hbSentAt = t,
                                 !.excused = @ \/ (/\ ~S.lastHeartbeatAcked
                                                   /\ S.status \in ForcedStatuses
                                                   /\ tag \in {"HeartbeatTimer",
                                                               "TimeSpentSessionHeartbeat"}),
                                 !.obs.hb = Append(@, seen)],
                       "HEARTBEAT", t)

\* ackHeartbeat()
AckHeartbeat(S, t) ==
    [S EXCEPT !.lastHeartbeatAcked = TRUE, !.ackedSentAt = S.hbSentAt, !.excused = FALSE]

\* ghost: what an IDENTIFY or RESUME carries and what the shard held when it
\* was handed to send()
Identified(S, op, seq) ==
    [op |-> op, seq |-> seq, sessionId |-> S.sessionId, sequence |-> S.sequence,
     written |-> ConnectionOpen(S), zombie |-> S.zombie,
     url |-> IF S.connection # Null THEN S.sockets[S.connection].url ELSE Null,
     closedSeq |-> S.closedSeq]

\* identifyNew(), the client holding a token
IdentifyNew(S, t) ==
    ShardSend([S EXCEPT !.status = "IDENTIFYING", !.zombie = Null,
                        !.obs.ident = Append(@, Identified(S, "IDENTIFY", -1))],
              "IDENTIFY", t)

\* identifyResume()
IdentifyResume(S, t) ==
    IF S.sessionId = Null THEN IdentifyNew(S, t)
    ELSE ShardSend([S EXCEPT !.status = "RESUMING", !.zombie = Null,
                             !.obs.ident = Append(@, Identified(S, "RESUME", S.closeSequence))],
                   "RESUME", t)

\* identify()
Identify(S, t) ==
    LET S1 == ClearField(S, "invalidSessionTimeout")
    IN  IF S1.sessionId # Null THEN IdentifyResume(S1, t) ELSE IdentifyNew(S1, t)

\* a checkReady() that arms no timeout for the guilds still expected
CheckReadyNoTimeout(S, t) ==
    LET S1 == ClearField(S, "readyTimeout")
    IN  IF S1.expectedGuilds = {}
        THEN Emit([S1 EXCEPT !.status = "READY"], "ALL_READY")
        ELSE S1

\* checkReady()
CheckReady(S, t) ==
    LET S1 == ClearField(S, "readyTimeout")
    IN  IF S1.expectedGuilds = {}
        THEN Emit([S1 EXCEPT !.status = "READY"], "ALL_READY")
        ELSE Arm(S1, "readyTimeout", "readyTimeout",
                 IF S1.hasGuildsIntent THEN WaitGuildTimeout ELSE 0, 0, t)

\* onClose(event) that forgets the sequence without caching it
OnCloseLosesSequence(S, t) ==
    LET S1 == ClearWsCloseTimeout(ClearHelloTimeout(ClearHeartbeatTimer(
                  [S EXCEPT !.closeEmitted = TRUE,
                            !.sequence = -1,
                            !.closedSeq = IF S.sequence = Null THEN None
                                          ELSE IF S.sequence # -1 /\ S.sessionId # Null
                                          THEN S.sequence ELSE @])))
        S2 == IF S1.connection # Null
              THEN Destroy(CleanupConnection(S1), 1000, S1.sessionId = Null, FALSE, t)
              ELSE S1
    IN  Emit([S2 EXCEPT !.status = "DISCONNECTED"], "CLOSE")

\* onClose(event)
OnClose(S, t) ==
    LET S1 == ClearWsCloseTimeout(ClearHelloTimeout(ClearHeartbeatTimer(
                  [S EXCEPT !.closeEmitted = TRUE,
                            !.closeSequence = IF S.sequence = Null THEN NullSequence
                                              ELSE IF S.sequence # -1 THEN S.sequence
                                              ELSE @,
                            !.sequence = -1,
                            !.closedSeq = IF S.sequence = Null THEN None
                                          ELSE IF S.sequence # -1 /\ S.sessionId # Null
                                          THEN S.sequence ELSE @])))
        S2 == IF S1.connection # Null
              THEN Destroy(CleanupConnection(S1), 1000, S1.sessionId = Null, FALSE, t)
              ELSE S1
    IN  Emit([S2 EXCEPT !.status = "DISCONNECTED"], "CLOSE")

\* connect(): a new socket unless an open connection is reused
Connect(S, t) ==
    LET S0 == [S EXCEPT !.promises = Append(@, [listeners |-> ConnectEvents,
                                                settled |-> FALSE])]
    IN
    IF ConnectionOpen(S) /\ S.status = "READY"
    THEN [S EXCEPT !.obs.settled = @ \cup {[promise |-> 0, event |-> "none",
                                            how |-> "resolved", again |-> FALSE,
                                            left |-> {}]}]
    ELSE IF ConnectionOpen(S) THEN Identify(S0, t)
    ELSE
      LET S1 == IF S.connection # Null THEN Destroy(S0, 1000, FALSE, FALSE, t) ELSE S0
          S2 == ClearWsCloseTimeout(SetHelloTimeout(
                    [S1 EXCEPT !.status = IF @ = "DISCONNECTED" THEN "RECONNECTING"
                                          ELSE "CONNECTING"], t))
      IN  [S2 EXCEPT !.sockets = Append(@, [readyState |-> "CONNECTING", bound |-> TRUE,
                                            url |-> S.resumeURL,
                                            hello |-> FALSE, heartbeats |-> FALSE,
                                            session |-> "none"]),
                     !.connection = Len(S2.sockets) + 1,
                     !.hbSentAt = None, !.ackedSentAt = None, !.excused = FALSE]

\* if (packet.s > this.sequence) this.sequence = packet.s, for a packet.s
\* that is a number or null: null compares as 0, and Null is 0
UpdateSequence(S, s) ==
    IF s > S.sequence
    THEN [S EXCEPT !.sequence = s, !.closedSeq = IF s # Null THEN None ELSE @]
    ELSE S

\* the sequence line of onPacket(packet); ghost: the packet's s and the
\* sequence it found.  A packet that is no dispatch carries s: null.
Received(S, s) ==
    [UpdateSequence(S, s) EXCEPT !.obs.packet = <<[s |-> s, before |-> S.sequence]>>]

\* onPacket(packet) for the READY dispatch; `guilds` are the unavailable
\* guilds it lists.  manager.handlePacket runs the READY handler, which
\* defers a checkReady().  The client options carry no heartbeat session
\* id, so sendUpdateTimeSpentSessionId() sends nothing.  packet.s = s.
OnReady(S, guilds, s, t) ==
    LET S1 == [Emit(S, "READY") EXCEPT
                 !.resumeURL = 1, !.sessionId = 1, !.expectedGuilds = guilds,
                 !.closedSeq = None,
                 !.status = "WAITING_FOR_GUILDS", !.lastHeartbeatAcked = TRUE]
        S2 == SendHeartbeat(S1, "ReadyHeartbeat", DefaultIgnoreHeartbeatAck(S1.status), t)
        S3 == IF S2.timeSpentSessionInterval = Null
              THEN Arm(S2, "timeSpentSessionInterval", "timeSpentSessionInterval",
                       TimeSpentPeriod, TimeSpentPeriod, t)
              ELSE S2
    IN  [Received(S3, s) EXCEPT !.pendingCheckReady = @ + 1]

\* onPacket(packet) for the RESUMED dispatch
OnResumed(S, s, t) ==
    LET S1 == [Emit(S, "RESUMED") EXCEPT !.status = "READY", !.lastHeartbeatAcked = TRUE]
        S2 == Received(
                  SendHeartbeat(S1, "ResumeHeartbeat", DefaultIgnoreHeartbeatAck(S1.status), t),
                  s)
    IN  [S2 EXCEPT !.closedSeq = None,
                   !.obs.resumed = Append(@, [from |-> S.closedSeq, open |-> ConnectionOpen(S),
                                              status |-> S2.status,
                                              sequence |-> S2.sequence])]

\* onPacket(packet) for op HELLO
OnHello(S, jitter, t) ==
    Identify(SetHeartbeatTimer(ClearHelloTimeout(Received(S, Null)), jitter, t), t)

\* onPacket(packet) for op INVALID_SESSION, packet.d = resumable
OnInvalidSession(S0, resumable, delay, t) ==
    LET S == Received(S0, Null) IN
    IF resumable THEN IdentifyResume(S, t)
    ELSE LET S1 == Emit([S EXCEPT !.sequence = -1, !.sessionId = Null,
                                  !.status = "RECONNECTING", !.closedSeq = None],
                        "INVALID_SESSION")
             S2 == IF S1.invalidSessionTimeout # Null
                   THEN Disarm(S1, "invalidSessionTimeout") ELSE S1
         IN  Arm(S2, "invalidSessionTimeout", "invalidSessionTimeout", delay, 0, t)

\* onPacket(packet) for the GUILD_CREATE dispatch of guild g
OnGuildCreate(S, g, s, t) ==
    LET S1 == Received(S, s)
    IN  IF S1.status = "WAITING_FOR_GUILDS"
        THEN CheckReady([S1 EXCEPT !.expectedGuilds = @ \ {g}], t)
        ELSE S1

\* the callback of the timer tm, the timer already taken off the pending ones
\* (setTimeout) or moved to its next due time (setInterval)
ShardTimerCallback(S, tm, t) ==
    CASE tm.kind = "helloTimeout" -> Destroy(S, 4009, TRUE, TRUE, t)
      [] tm.kind = "wsCloseTimeout" ->
           LET S1 == ClearWsCloseTimeout(S)
           IN  IF S1.closeEmitted THEN [S1 EXCEPT !.closeEmitted = FALSE]
               ELSE Emit(IF S1.connection # Null THEN CleanupConnection(S1) ELSE S1,
                         "CLOSE_4009")
      [] tm.kind = "heartbeatTimeout" ->
           LET S1 == SendHeartbeat([S EXCEPT !.heartbeatTimeout = Null],
                                   "HeartbeatJitter", TRUE, t)
           IN  Arm(S1, "heartbeatInterval", "heartbeatInterval", HbInterval, HbInterval, t)
      [] tm.kind = "heartbeatInterval" ->
           SendHeartbeat(S, "HeartbeatTimer", DefaultIgnoreHeartbeatAck(S.status), t)
      [] tm.kind = "timeSpentSessionInterval" ->
           IF ConnectionOpen(S)
           THEN SendHeartbeat(S, "TimeSpentSessionHeartbeat",
                              DefaultIgnoreHeartbeatAck(S.status), t)
           ELSE S
      [] tm.kind = "readyTimeout" ->
           Emit([S EXCEPT !.readyTimeout = Null, !.status = "READY"], "ALL_READY")
      [] tm.kind = "invalidSessionTimeout" ->
           LET S1 == [S EXCEPT !.invalidSessionTimeout = Null]
           IN  IF ConnectionOpen(S1) THEN IdentifyNew(S1, t)
               ELSE Destroy(S1, 1000, TRUE, FALSE, t)

(***************************************************************************)
(* HbSpec: the shard driven by connect(), the socket's events, the         *)
(* gateway's packets and the timers.  The gateway keeps to its protocol:   *)
(* HELLO once, first; READY after IDENTIFY, RESUMED after RESUME;          *)
(* HEARTBEAT_ACK after a heartbeat; GUILD_CREATE within a session.         *)
(***************************************************************************)
HInit == shard = ShardNew

HBegin(S) == [S EXCEPT !.obs = NoObs]

\* the latest operation emitted the event
Emitted(S, event) == \E k \in DOMAIN S.obs.emitted : S.obs.emitted[k] = event

\* ghost: the operation that led from S0 to S1 emitted ALL_READY directly
\* after another operation that emitted it
Promoted(S0, S1) ==
    [S1 EXCEPT !.obs.repeated = Emitted(S0, "ALL_READY") /\ Emitted(S1, "ALL_READY")]

\* What no later step can tell apart is made equal: a socket that is closed,
\* or detached and no longer the connection, is out of the shard's reach, and
\* the acknowledgement ghosts belong to the current connection, and the
\* gateway's sequence number to a session the shard or a socket still holds.
Settle(S) ==
    [S EXCEPT
       !.promises = SelectSeq(@, LAMBDA p : p.listeners # {}),
       !.gatewaySeq = IF /\ S.sessionId = Null
                         /\ \A i \in DOMAIN S.sockets :
                               S.sockets[i].session \in {"none", "identify"}
                      THEN 0 ELSE @,
       !.hbSentAt = IF S.connection = Null THEN None ELSE @,
       !.ackedSentAt = IF S.connection = Null THEN None ELSE @,
       !.excused = IF S.connection = Null THEN FALSE ELSE @,
       !.sockets = [i \in DOMAIN S.sockets |->
                      LET ws == S.sockets[i]
                      IN  IF ~ws.bound /\ i # S.connection
                          THEN [readyState |-> "CLOSED", bound |-> FALSE, url |-> Null,
                                hello |-> FALSE, heartbeats |-> FALSE, session |-> "none"]
                          ELSE IF ws.readyState = "CLOSED"
                          THEN [ws EXCEPT !.url = Null, !.hello = FALSE,
                                          !.heartbeats = FALSE, !.session = "none"]
                          ELSE ws]]

\* sockets whose events still reach the shard
Delivering == {i \in DOMAIN shard.sockets :
                 /\ shard.sockets[i].bound
                 /\ shard.sockets[i].readyState \in {"OPEN", "CLOSING"}}

HConnectUpTo(maxSockets) ==
    /\ Len(shard.sockets) < maxSockets
    /\ Len(shard.promises) < MaxPromises
    /\ shard' = Settle(Connect(HBegin(shard), now))
    /\ UNCHANGED <<now, sched, shardOpen, nextFrame, lastOp, qvars, cvars, rvars, tvars, bvars>>

HConnect == HConnectUpTo(MaxSockets)

\* ws.onopen
HSocketOpen ==
    /\ \E i \in DOMAIN shard.sockets :
         /\ shard.sockets[i].bound
         /\ shard.sockets[i].readyState = "CONNECTING"
         /\ shard' = Settle([HBegin(shard) EXCEPT !.sockets[i].readyState = "OPEN",
                                           !.status = "NEARLY"])
    /\ UNCHANGED <<now, sched, shardOpen, nextFrame, lastOp, qvars, cvars, rvars, tvars, bvars>>

\* the socket closes; ws.onclose if still attached
HSocketClose ==
    /\ \E i \in DOMAIN shard.sockets :
         /\ shard.sockets[i].readyState # "CLOSED"
         /\ LET S == [HBegin(shard) EXCEPT !.sockets[i].readyState = "CLOSED"]
            IN  shard' = Settle(IF shard.sockets[i].bound
                                THEN OnClose([S EXCEPT !.obs.closed =
                                                <<[socket |-> i,
                                                   synth |-> IF Emitted(shard, "CLOSE_4009")
                                                             THEN shard.obs.watched
                                                             ELSE Null]>>],
                                             now)
                                ELSE S)
    /\ UNCHANGED <<now, sched, shardOpen, nextFrame, lastOp, qvars, cvars, rvars, tvars, bvars>>

HRecvHelloFrom(from) ==
    /\ \E i \in from, jitter \in 0..(HbInterval - 1) :
         /\ ~shard.sockets[i].hello
         /\ shard' = Settle(OnHello([HBegin(shard) EXCEPT !.sockets[i].hello = TRUE], jitter, now))
    /\ UNCHANGED <<now, sched, shardOpen, nextFrame, lastOp, qvars, cvars, rvars, tvars, bvars>>

HRecvHello == HRecvHelloFrom(Delivering)

HRecvReadyFrom(from) ==
    /\ \E i \in from, guilds \in SUBSET (1..MaxGuilds) :
         /\ shard.sockets[i].hello
         /\ shard.sockets[i].session = "identify"
         /\ shard.pendingCheckReady < MaxPending
         /\ shard' = Settle(OnReady([HBegin(shard) EXCEPT !.sockets[i].session = "ready",
                                                          !.gatewaySeq = 1],
                                    guilds, 1, now))
    /\ UNCHANGED <<now, sched, shardOpen, nextFrame, lastOp, qvars, cvars, rvars, tvars, bvars>>

HRecvReady == HRecvReadyFrom(Delivering)

HRecvResumedFrom(from) ==
    /\ \E i \in from :
         /\ shard.sockets[i].hello
         /\ shard.sockets[i].session = "resume"
         /\ shard' = Settle(OnResumed([HBegin(shard) EXCEPT !.sockets[i].session = "ready"],
                                      shard.gatewaySeq, now))
    /\ UNCHANGED <<now, sched, shardOpen, nextFrame, lastOp, qvars, cvars, rvars, tvars, bvars>>

HRecvResumed == HRecvResumedFrom(Delivering)

HRecvHeartbeatAckFrom(from) ==
    /\ \E i \in from :
         /\ shard.sockets[i].hello
         /\ shard.sockets[i].heartbeats
         /\ shard' = Settle(AckHeartbeat(Received(HBegin(shard), Null), now))
    /\ UNCHANGED <<now, sched, shardOpen, nextFrame, lastOp, qvars, cvars, rvars, tvars, bvars>>

HRecvHeartbeatAck == HRecvHeartbeatAckFrom(Delivering)

\* op HEARTBEAT: the gateway asks for a heartbeat
HRecvHeartbeatRequestFrom(from) ==
    /\ \E i \in from :
         /\ shard.sockets[i].hello
         /\ shard' = Settle(SendHeartbeat(Received(HBegin(shard), Null),
                                       "HeartbeatRequest", TRUE, now))
    /\ UNCHANGED <<now, sched, shardOpen, nextFrame, lastOp, qvars, cvars, rvars, tvars, bvars>>

HRecvHeartbeatRequest == HRecvHeartbeatRequestFrom(Delivering)

\* op RECONNECT
HRecvReconnectFrom(from) ==
    /\ \E i \in from :
         /\ shard.sockets[i].hello
         /\ shard' = Settle(Destroy(Received(HBegin(shard), Null), 4000, FALSE, TRUE, now))
    /\ UNCHANGED <<now, sched, shardOpen, nextFrame, lastOp, qvars, cvars, rvars, tvars, bvars>>

HRecvReconnect == HRecvReconnectFrom(Delivering)

HRecvInvalidSessionFrom(from) ==
    /\ \E i \in from, resumable \in BOOLEAN, delay \in InvalidSessionDelays :
         /\ shard.sockets[i].hello
         /\ shard.sockets[i].session # "none"
         /\ shard' = Settle(OnInvalidSession(
                         [HBegin(shard) EXCEPT !.sockets[i].session = "none"],
                         resumable, delay, now))
    /\ UNCHANGED <<now, sched, shardOpen, nextFrame, lastOp, qvars, cvars, rvars, tvars, bvars>>

HRecvInvalidSession == HRecvInvalidSessionFrom(Delivering)

HRecvGuildCreateFrom(from) ==
    /\ \E i \in from, g \in 1..MaxGuilds :
         /\ shard.sockets[i].hello
         /\ shard.sockets[i].session = "ready"
         /\ shard.gatewaySeq < MaxSeq
         /\ shard' = Settle(Promoted(shard,
                               OnGuildCreate([HBegin(shard) EXCEPT !.gatewaySeq = @ + 1], g,
                                             shard.gatewaySeq + 1, now)))
    /\ UNCHANGED <<now, sched, shardOpen, nextFrame, lastOp, qvars, cvars, rvars, tvars, bvars>>

HRecvGuildCreate == HRecvGuildCreateFrom(Delivering)

\* the application calls shard.send(data)
HSend ==
    /\ \E byteSize \in FrameSizes :
         LET S == ShardWrite(HBegin(shard), "DISPATCH", byteSize, now)
         IN  shard' = Settle([S EXCEPT !.obs.frames =
                                <<[size |-> byteSize, open |-> ConnectionOpen(shard),
                                   status |-> shard.status,
                                   written |-> S.obs.sent # <<>>]>>])
    /\ UNCHANGED <<now, sched, shardOpen, nextFrame, lastOp, qvars, cvars, rvars, tvars, bvars>>

\* the checkReady() the READY handler deferred
HCheckReady ==
    /\ shard.pendingCheckReady > 0
    /\ shard' = Settle(Promoted(shard, CheckReady([HBegin(shard) EXCEPT
                                                      !.pendingCheckReady = @ - 1], now)))
    /\ UNCHANGED <<now, sched, shardOpen, nextFrame, lastOp, qvars, cvars, rvars, tvars, bvars>>

HTimerFire ==
    /\ \E tm \in shard.timers :
         /\ tm.due <= now
         /\ LET others == shard.timers \ {tm}
                S == [HBegin(shard) EXCEPT
                        !.timers = IF tm.period > 0
                                   THEN others \cup {[tm EXCEPT !.due = @ + tm.period]}
                                   ELSE others]
                S1 == ShardTimerCallback(
                          [S EXCEPT !.obs.fired = IF tm.kind \in ObservedTimers
                                                  THEN tm.kind ELSE @,
                                    !.obs.watched = IF tm.kind = "wsCloseTimeout"
                                                    THEN S.watched ELSE @,
                                    !.watched = IF tm.kind = "wsCloseTimeout"
                                                THEN Null ELSE @],
                          tm, now)
            IN  shard' = Settle(Promoted(shard, S1))
    /\ UNCHANGED <<sched, now, shardOpen, nextFrame, lastOp, qvars, cvars, rvars, tvars, bvars>>

\* a clock tick, once every timer that is due has fired
HTickUpTo(maxTime) ==
    /\ now < maxTime
    /\ \A tm \in shard.timers : tm.due > now
    /\ now' = now + 1
    /\ shard' = Settle(HBegin(shard))
    /\ UNCHANGED <<sched, shardOpen, nextFrame, lastOp, qvars, cvars, rvars, tvars, bvars>>

HTick == HTickUpTo(HbMaxTime)

HNext ==
    \/ HConnect \/ HSocketOpen \/ HSocketClose
    \/ HRecvHello \/ HRecvReady \/ HRecvResumed \/ HRecvHeartbeatAck
    \/ HRecvHeartbeatRequest \/ HRecvReconnect \/ HRecvInvalidSession
    \/ HRecvGuildCreate \/ HCheckReady \/ HTimerFire \/ HTick

(***************************************************************************)
(* Spec: the scheduler under enqueue / process / timer fire / clear        *)
(***************************************************************************)
OtherOp == [op |-> "other", run |-> 0, dropped |-> 0]

SInit ==
    /\ now = 0
    /\ sched = SchedulerNew(0)
    /\ shardOpen = TRUE
    /\ nextFrame = 1
    /\ lastOp = OtherOp

SEnqueueUpTo(maxFrames) ==
    /\ nextFrame <= maxFrames
    /\ \E important \in BOOLEAN :
         sched' = Enqueue(Begin(sched), nextFrame, important, now, shardOpen)
    /\ nextFrame' = nextFrame + 1
    /\ lastOp' = OtherOp
    /\ UNCHANGED <<now, shardOpen, qvars, hvars, cvars, rvars, tvars, bvars>>

SEnqueue == SEnqueueUpTo(MaxFrames)

\* shard.processQueue()
SProcess ==
    /\ sched' = Process(Begin(sched), now, shardOpen)
    /\ lastOp' = OtherOp
    /\ UNCHANGED <<now, shardOpen, nextFrame, qvars, hvars, cvars, rvars, tvars, bvars>>

STimerFire ==
    /\ \E tm \in sched.armed :
         /\ now >= tm.due
         /\ sched' = TimerCallback([Begin(sched) EXCEPT !.armed = @ \ {tm}], now, shardOpen)
    /\ lastOp' = OtherOp
    /\ UNCHANGED <<now, shardOpen, nextFrame, qvars, hvars, cvars, rvars, tvars, bvars>>

\* clear(), called by the shard's destroy()
SClear ==
    /\ sched' = SchedClear(Begin(sched), now)
    /\ lastOp' = [op |-> "clear",
                   run |-> Min2(lastOp.run + 1, 2),
                   dropped |-> IF lastOp.op = "clear" THEN lastOp.dropped
                               ELSE SchedLength(sched) + Cardinality(sched.armed)]
    /\ UNCHANGED <<now, shardOpen, nextFrame, qvars, hvars, cvars, rvars, tvars, bvars>>

\* the shard's socket opens or stops being OPEN
SShardFlip ==
    /\ shardOpen' = ~shardOpen
    /\ sched' = Begin(sched)
    /\ lastOp' = OtherOp
    /\ UNCHANGED <<now, nextFrame, qvars, hvars, cvars, rvars, tvars, bvars>>

\* a millisecond passes; timers fire at or after their due time
STickUpTo(maxTime) ==
    /\ now < maxTime
    /\ now' = now + 1
    /\ sched' = [Begin(sched) EXCEPT !.sentAt = DropOld(@, now + 1)]
    /\ lastOp' = OtherOp
    /\ UNCHANGED <<shardOpen, nextFrame, qvars, hvars, cvars, rvars, tvars, bvars>>

STick == STickUpTo(MaxTime)

Next == SEnqueue \/ SProcess \/ STimerFire \/ SClear \/ SShardFlip \/ STick

(***************************************************************************)
(* READY handler: planning of the guild-subscription frames               *)
(***************************************************************************)

\* MAX_SUBSCRIPTION_PACKET_BYTES
MaxSubscriptionPacketBytes == 14 * 1024

\* byte length of the payload prefix {"op":NN,"d":{"subscriptions":{ (a
\* two-digit opcode) plus the suffix }}}
SubscriptionPayloadBaseSize == 34

\* byte length of JSON.stringify(createSubscription())
SerializedSubscriptionSize == 122

\* byte lengths of JSON.stringify(guild.id): an 18-digit snowflake, two ids
\* that fill a frame between them, and ids that fill a frame on their own
QuotedIdBytes == {20, 7027, 7028, 14179, 14180}

\* a guild id: a name and the byte length of its quoted form
GuildIds == [name : 1..2, bytes : QuotedIdBytes]

getSubscriptionEntrySize(guildId) == guildId.bytes + 1 + SerializedSubscriptionSize

\* the state of buildSubscriptionChunks before its loop; a subscriptions
\* object is the set of its keys, every value being the fixed template
ChunkerNew ==
    [chunks |-> <<>>, subscriptions |-> {}, subscriptionCount |-> 0,
     payloadSize |-> SubscriptionPayloadBaseSize]

\* chunks.push(subscriptions) that goes on filling the object it pushed
ChunkFlushSameObject(c) ==
    [c EXCEPT !.chunks = Append(@, c.subscriptions),
              !.subscriptionCount = 0,
              !.payloadSize = SubscriptionPayloadBaseSize]

\* chunks.push(subscriptions) and a fresh subscriptions object
ChunkFlush(c) ==
    [c EXCEPT !.chunks = Append(@, c.subscriptions),
              !.subscriptions = {},
              !.subscriptionCount = 0,
              !.payloadSize = SubscriptionPayloadBaseSize]

\* a loop body that leaves the separator out of the budget test
ChunkStepNoSeparator(c, guildId) ==
    LET entrySize == getSubscriptionEntrySize(guildId)
        c1 == IF c.subscriptionCount > 0
                 /\ c.payloadSize + entrySize > MaxSubscriptionPacketBytes
              THEN ChunkFlush(c) ELSE c
        c2 == [c1 EXCEPT !.subscriptions = @ \cup {guildId},
                         !.payloadSize = @ + (IF c1.subscriptionCount > 0 THEN 1 ELSE 0)
                                           + entrySize,
                         !.subscriptionCount = @ + 1]
    IN  IF c2.subscriptionCount = 1 /\ c2.payloadSize > MaxSubscriptionPacketBytes
        THEN ChunkFlush(c2) ELSE c2

\* one pass of the loop body of buildSubscriptionChunks
ChunkStep(c, guildId) ==
    LET entrySize == getSubscriptionEntrySize(guildId)
        separatorSize == IF c.subscriptionCount > 0 THEN 1 ELSE 0
        c1 == IF c.subscriptionCount > 0
                 /\ c.payloadSize + separatorSize + entrySize > MaxSubscriptionPacketBytes
              THEN ChunkFlush(c) ELSE c
        c2 == [c1 EXCEPT !.subscriptions = @ \cup {guildId},
                         !.payloadSize = @ + (IF c1.subscriptionCount > 0 THEN 1 ELSE 0)
                                           + entrySize,
                         !.subscriptionCount = @ + 1]
    IN  IF c2.subscriptionCount = 1 /\ c2.payloadSize > MaxSubscriptionPacketBytes
        THEN ChunkFlush(c2) ELSE c2

RECURSIVE ChunkLoop(_, _)
ChunkLoop(c, guilds) ==
    IF guilds = <<>> THEN c ELSE ChunkLoop(ChunkStep(c, Head(guilds)), Tail(guilds))

\* buildSubscriptionChunks(guilds), guilds given by their ids
buildSubscriptionChunks(guilds) ==
    LET c == ChunkLoop(ChunkerNew, guilds)
    IN  IF c.subscriptionCount > 0 THEN Append(c.chunks, c.subscriptions) ELSE c.chunks

RECURSIVE EntriesSize(_)
EntriesSize(keys) ==
    IF keys = {} THEN 0
    ELSE LET k == CHOOSE x \in keys : TRUE
         IN  getSubscriptionEntrySize(k) + EntriesSize(keys \ {k})

\* byte length of JSON.stringify({ op, d: { subscriptions } })
FrameBytes(subscriptions) ==
    SubscriptionPayloadBaseSize + EntriesSize(subscriptions)
        + (IF subscriptions = {} THEN 0 ELSE Cardinality(subscriptions) - 1)

CInit == rd = [guilds |-> <<>>, frames |-> <<>>]

GuildLists == UNION {[1..n -> GuildIds] : n \in 0..MaxGuildList}

\* a READY payload arrives: one subscription frame is sent per chunk
CReady ==
    /\ \E guilds \in GuildLists :
         rd' = [guilds |-> guilds, frames |-> buildSubscriptionChunks(guilds)]
    /\ UNCHANGED <<qvars, svars, hvars, rvars, tvars, bvars>>

CNext == CReady

(***************************************************************************)
(* RestSpec: the RESTManager's global counters and its RequestHandlers.    *)
(* A request is pushed, waits for its turn in the handler's AsyncQueue,    *)
(* passes the rate-limit loop of execute(), is in flight until the server  *)
(* answers, and is retried or settled.  One clock unit stands for a        *)
(* second; rejectOnRateLimit is unset and requests carry no files.         *)
(***************************************************************************)

\* markRequestStart: this.manager.globalReset = now + 1_000
GlobalWindow == 1

\* getRetryBackoff(status, retries): nothing before the first retry, else at
\* least 250 ms (429) or 400 ms (5xx), a fraction of a second
Backoff(status, retries) == IF retries = 0 THEN 0 ELSE 1

Handlers == 1..2

\* the handler of the route mfa/finish
MfaHandler == 2

NoRestObs == [issued |-> <<>>, answered |-> <<>>, waits |-> <<>>, resumed |-> {}]

\* new RESTManager(client) with no handler used yet; globalReset null is 0
RestNew(env) ==
    [env |-> env, globalRemaining |-> GlobalLimit, globalReset |-> Null, globalDelay |-> Null,
     globalTimers |-> {},
     handlers |-> [h \in Handlers |-> [queue |-> <<>>, remaining |-> -1, reset |-> -1]],
     requests |-> <<>>, obs |-> NoRestObs]

NoLimit == [limited |-> FALSE, isGlobal |-> FALSE, timeout |-> 0]

\* a getActiveRateLimit that does not look at the global counters
GetActiveRateLimitLocalOnly(R, h, t, webhook) ==
    IF R.handlers[h].remaining <= 0 /\ t < R.handlers[h].reset
    THEN [limited |-> TRUE, isGlobal |-> FALSE,
          timeout |-> R.handlers[h].reset + RestTimeOffset - t]
    ELSE NoLimit

\* coordinator.getActiveRateLimit(handler, now, request)
getActiveRateLimit(R, h, t, webhook) ==
    IF ~webhook /\ R.globalRemaining <= 0 /\ t < R.globalReset
    THEN [limited |-> TRUE, isGlobal |-> TRUE,
          timeout |-> R.globalReset + RestTimeOffset - t]
    ELSE IF R.handlers[h].remaining <= 0 /\ t < R.handlers[h].reset
    THEN [limited |-> TRUE, isGlobal |-> FALSE,
          timeout |-> R.handlers[h].reset + RestTimeOffset - t]
    ELSE NoLimit

\* coordinator.markRequestStart(request, now)
markRequestStart(R, webhook, t) ==
    IF webhook THEN R
    ELSE LET R1 == IF R.globalReset = Null \/ R.globalReset < t
                   THEN [R EXCEPT !.globalReset = t + GlobalWindow,
                                  !.globalRemaining = GlobalLimit]
                   ELSE R
         IN  [R1 EXCEPT !.globalRemaining = @ - 1]

\* ghost: the retries of a request by their cause
NoCounts == [captcha |-> 0, mfa |-> 0, failed |-> 0]

Count(R, r, why) == [R EXCEPT !.requests[r].counts[why] = @ + 1]

\* an AsyncQueue whose wait() never makes the caller wait
QueueWaitNoLock(queue) == "gate"

\* AsyncQueue.wait(): at once on an empty queue, else after the entries ahead
QueueWait(queue) == IF queue = <<>> THEN "gate" ELSE "queued"

\* manager.request(...) -> handler.push(request) up to its await queue.wait()
Push(R, h, webhook, parent) ==
    [R EXCEPT !.handlers[h].queue = Append(@, Len(R.requests) + 1),
              !.requests = Append(@, [handler |-> h, webhook |-> webhook, retries |-> 0,
                                      pc |-> QueueWait(R.handlers[h].queue), wake |-> 0,
                                      awaits |-> Null, parent |-> parent,
                                      counts |-> NoCounts])]

\* a _getDelayPromise that arms a timer of its own for every waiter
GlobalDelayPerWaiter(R, delay, t) ==
    LET id == MinOf({i \in 1..(Cardinality(R.globalTimers) + 1) :
                       \A tm \in R.globalTimers : tm.id # i})
    IN  [R EXCEPT !.globalDelay = id,
                  !.globalTimers = @ \cup {[id |-> id, due |-> t + delay]}]

\* _getDelayPromise(true, timeout): manager.globalDelay, made by
\* globalDelayFor(delay) with a timer of its own when there is none
GlobalDelay(R, delay, t) ==
    IF R.globalDelay # Null THEN R
    ELSE LET id == MinOf({i \in 1..(Cardinality(R.globalTimers) + 1) :
                            \A tm \in R.globalTimers : tm.id # i})
         IN  [R EXCEPT !.globalDelay = id,
                       !.globalTimers = @ \cup {[id |-> id, due |-> t + delay]}]

\* run() from the rate-limit loop to request.make(): wait while a limit is
\* active (the waiters for the global limit await manager.globalDelay), else
\* count the request and issue the HTTP call
Run(R, r, t) ==
    LET q == R.requests[r]
        lim == getActiveRateLimit(R, q.handler, t, q.webhook)
        delay == IF lim.timeout > 0 THEN lim.timeout ELSE 0
    IN  IF lim.limited
        THEN IF lim.isGlobal
             THEN LET R1 == GlobalDelay(R, delay, t)
                  IN  [R1 EXCEPT !.requests[r].pc = "gwait",
                                 !.requests[r].awaits = R1.globalDelay,
                                 !.obs.waits = Append(@, [request |-> r,
                                                          armed |-> R.globalTimers])]
             ELSE [R EXCEPT !.requests[r].pc = "sleep", !.requests[r].wake = t + delay]
        ELSE [markRequestStart(R, q.webhook, t) EXCEPT
                !.requests[r].pc = "flight",
                !.obs.issued = Append(@, [request |-> r, handler |-> q.handler,
                                          webhook |-> q.webhook, at |-> t,
                                          globalRemaining |-> R.globalRemaining,
                                          globalReset |-> R.globalReset])]

\* a push() without finally: queue.shift() only after execute() returned
ShiftOnSuccessOnly(R, r, how) ==
    LET h == R.requests[r].handler
        queue == IF how = "resolved" THEN Tail(R.handlers[h].queue) ELSE R.handlers[h].queue
        R1 == [R EXCEPT !.handlers[h].queue = queue,
                        !.requests[r] = [handler |-> h, webhook |-> FALSE, retries |-> 0,
                                         pc |-> how, wake |-> 0, awaits |-> Null,
                                         parent |-> 0, counts |-> NoCounts]]
    IN  IF how = "resolved" /\ queue # <<>> /\ R1.requests[Head(queue)].pc = "queued"
        THEN [R1 EXCEPT !.requests[Head(queue)].pc = "gate"]
        ELSE R1

\* a queue.shift() that lets the last entry of the queue run
ShiftWakesLast(R, r, how) ==
    LET h == R.requests[r].handler
        queue == Tail(R.handlers[h].queue)
        R1 == [R EXCEPT !.handlers[h].queue = queue,
                        !.requests[r] = [handler |-> h, webhook |-> FALSE, retries |-> 0,
                                         pc |-> how, wake |-> 0, awaits |-> Null,
                                         parent |-> 0, counts |-> NoCounts]]
    IN  IF queue # <<>> /\ R1.requests[queue[Len(queue)]].pc = "queued"
        THEN [R1 EXCEPT !.requests[queue[Len(queue)]].pc = "gate"]
        ELSE R1

\* push()'s finally: the request is settled and queue.shift() lets the next
\* entry of the queue run
Shift(R, r, how) ==
    LET h == R.requests[r].handler
        queue == Tail(R.handlers[h].queue)
        R1 == [R EXCEPT !.handlers[h].queue = queue,
                        !.requests[r] = [handler |-> h, webhook |-> FALSE, retries |-> 0,
                                         pc |-> how, wake |-> 0, awaits |-> Null,
                                         parent |-> 0, counts |-> NoCounts]]
    IN  IF queue # <<>> /\ R1.requests[Head(queue)].pc = "queued"
        THEN [R1 EXCEPT !.requests[Head(queue)].pc = "gate"]
        ELSE R1

\* the request settles; the request awaiting it for its second factor goes on
Finish(R, r, how) ==
    LET p == R.requests[r].parent
        R1 == Shift(R, r, how)
    IN  IF p = 0 THEN R1
        ELSE IF how = "resolved"
        THEN [R1 EXCEPT !.requests[p].retries = @ + 1, !.requests[p].pc = "gate"]
        ELSE Shift(R1, p, "rejected")

\* request.retries++; return run()
Retry(R, r) == [R EXCEPT !.requests[r].retries = @ + 1, !.requests[r].pc = "gate"]

\* the headers of a response: no rate-limit header, or x-ratelimit-remaining
\* (0, or more) with x-ratelimit-reset-after; retry-after; x-ratelimit-global;
\* x-ratelimit-scope
Headers == [bucket : {"none", "spent", "left"}, retryAfter : {0, RetryAfter}, global : BOOLEAN,
            scope : {"none", "shared"}]

NoHeaders == [bucket |-> "none", retryAfter |-> 0, global |-> FALSE, scope |-> "none"]

\* coordinator.isGlobalScope(headers)
isGlobalScope(hdr) == hdr.global \/ hdr.scope = "global"

\* coordinator.isSharedScope(headers)
isSharedScope(hdr) == hdr.scope = "shared"

\* the HTTP status of the kinds of answer
StatusOf(kind) ==
    CASE kind = "ok" -> 200 [] kind = "429" -> 429 [] kind = "captcha" -> 400
      [] kind = "mfa" -> 401 [] kind = "4xx" -> 403 [] kind = "5xx" -> 500
      [] OTHER -> 0

\* execute(): what the response adds to invalidCount
InvalidCounted(status, hdr) ==
    IF (status = 401 \/ status = 403 \/ status = 429)
       /\ ~(status = 429 /\ isSharedScope(hdr))
    THEN 1 ELSE 0

\* remaining ? Number(remaining) : 1
HeaderRemaining(hdr) ==
    CASE hdr.bucket = "none" -> 1
      [] hdr.bucket = "spent" -> 0
      [] hdr.bucket = "left" -> RemainingLeft

\* reset || resetAfter ? calculateReset(reset, resetAfter, serverDate) : Date.now()
HeaderReset(hdr, t) == IF hdr.bucket = "none" THEN t ELSE t + ResetAfter

\* an applyHeaders that takes a 429's retry-after for the route's reset
ApplyHeadersRetryAfterAsReset(R, h, hdr, t) ==
    IF hdr.retryAfter > 0
    THEN [R EXCEPT !.handlers[h].remaining = 0, !.handlers[h].reset = t + hdr.retryAfter]
    ELSE [R EXCEPT !.handlers[h].remaining = HeaderRemaining(hdr),
                   !.handlers[h].reset = HeaderReset(hdr, t)]

\* coordinator.applyHeaders(handler, request, headers): the handler's and
\* the global counters
applyHeaders(R, h, hdr, t) ==
    LET R1 == [R EXCEPT !.handlers[h].remaining = HeaderRemaining(hdr),
                        !.handlers[h].reset = HeaderReset(hdr, t)]
    IN  IF hdr.retryAfter > 0 /\ isGlobalScope(hdr)
        THEN [R1 EXCEPT !.globalRemaining = 0, !.globalReset = t + hdr.retryAfter]
        ELSE R1

\* coordinator.applyHeaders: the sublimitTimeout it returns, 0 for null
sublimitTimeout(R, h, hdr, t) ==
    IF /\ hdr.retryAfter > 0 /\ ~isGlobalScope(hdr)
       /\ ~(R.handlers[h].remaining <= 0 /\ t < R.handlers[h].reset)
    THEN hdr.retryAfter ELSE 0

\* execute(): the 429 branch after the headers were applied to R; the body
\* carries neither retry_after nor global
On429(R, r, sublimit, hdr, t) ==
    LET q == R.requests[r]
        h == q.handler
        lim == getActiveRateLimit(R, h, t, q.webhook)
        globalLimited == R.globalRemaining <= 0 /\ t < R.globalReset
        isGlobal0 == IF lim.limited THEN lim.isGlobal ELSE ~q.webhook /\ globalLimited
        computedTimeout == IF lim.limited THEN lim.timeout
                           ELSE IF isGlobal0 THEN R.globalReset + RestTimeOffset - t
                           ELSE R.handlers[h].reset + RestTimeOffset - t
        safeTimeout == IF computedTimeout > 0 THEN computedTimeout ELSE 0
        isGlobal == isGlobal0 \/ isGlobalScope(hdr)
        R1 == IF isGlobal /\ safeTimeout > 0
              THEN [R EXCEPT !.globalRemaining = 0, !.globalReset = t + safeTimeout]
              ELSE R
        retries == IF q.retries > 1 THEN q.retries ELSE 1
    IN  IF sublimit > 0
        THEN [R1 EXCEPT !.requests[r].pc = "sublimit", !.requests[r].wake = t + sublimit]
        ELSE [R1 EXCEPT !.requests[r].pc = "backoff",
                        !.requests[r].wake = t + Backoff(429, retries)]

\* a captcha test that lets one retry more through
CaptchaRetryOneMore(retries) == retries <= CaptchaRetryLimit

\* execute(): request.retries < captchaRetryLimit (a captchaSolver is set)
CaptchaRetryAllowed(retries) == retries < CaptchaRetryLimit

\* execute(): request.retries === retryLimit
RetriesExhausted(retries) == retries = RetryLimit

\* run() from the outcome of request.make() on.  kind: "error" (make threw),
\* "ok", "429", "captcha", "mfa", "4xx", "5xx"
Respond(R, r, kind, hdr, t) ==
    LET q == R.requests[r]
        h == q.handler
        R1 == applyHeaders(R, h, hdr, t)
    IN  CASE kind = "error" ->
               IF RetriesExhausted(q.retries) THEN Finish(R, r, "rejected")
               ELSE Retry(Count(R, r, "failed"), r)
          [] kind = "ok" -> Finish(R1, r, "resolved")
          [] kind = "429" ->
               On429(R1, r, sublimitTimeout(R1, h, hdr, t), hdr, t)
          [] kind = "captcha" ->
               IF CaptchaRetryAllowed(q.retries) THEN Retry(Count(R1, r, "captcha"), r)
               ELSE Finish(R1, r, "rejected")
          [] kind = "mfa" ->
               IF q.retries < 1
               THEN Push([Count(R1, r, "mfa") EXCEPT !.requests[r].pc = "mfa"],
                         MfaHandler, FALSE, r)
               ELSE Finish(R1, r, "rejected")
          [] kind = "4xx" -> Finish(R1, r, "rejected")
          [] kind = "5xx" ->
               IF RetriesExhausted(q.retries) THEN Finish(R1, r, "rejected")
               ELSE IF Backoff(500, q.retries) = 0 THEN Retry(Count(R1, r, "failed"), r)
               ELSE [Count(R1, r, "failed") EXCEPT
                       !.requests[r].pc = "backoff",
                       !.requests[r].wake = t + Backoff(500, q.retries)]

\* the runs explored: many requests, or fewer requests retried more often
Envs == {[requests |-> MaxRequests, retries |-> MaxProvoked],
         [requests |-> RetriedRequests, retries |-> MaxRetries]}

\* the requests pushed, as handler and options.webhook: the route of the
\* second-factor call takes no webhook request
Routes == {<<h, webhook>> \in Handlers \X BOOLEAN : webhook => h # MfaHandler}

\* no run chosen yet
NoEnv == [requests |-> 0, retries |-> 0]

RestInit == rest = RestNew(NoEnv)

RestBegin(R) == [R EXCEPT !.obs = NoRestObs]

\* the application requests a route
RestPush ==
    /\ \E env \in (IF rest.env = NoEnv THEN Envs ELSE {rest.env}) :
         /\ Len(rest.requests) < env.requests
         /\ \E route \in Routes :
              rest' = Push([RestBegin(rest) EXCEPT !.env = env], route[1], route[2], 0)
    /\ UNCHANGED <<qvars, svars, hvars, cvars, tvars, bvars>>

\* a request whose turn has come, or whose wait is over, runs
RestRun ==
    /\ \E r \in DOMAIN rest.requests :
         /\ rest.requests[r].pc = "gate"
         /\ rest' = Run(RestBegin(rest), r, now)
    /\ UNCHANGED <<qvars, svars, hvars, cvars, tvars, bvars>>

\* a timer of globalDelayFor fires: manager.globalDelay = null, and the
\* promise it made is resolved
RestGlobalDelay ==
    /\ \E tm \in rest.globalTimers :
         /\ tm.due <= now
         /\ LET waiters == {r \in DOMAIN rest.requests :
                              rest.requests[r].pc = "gwait"
                              /\ rest.requests[r].awaits = tm.id}
            IN  rest' = [RestBegin(rest) EXCEPT
                           !.globalDelay = Null,
                           !.globalTimers = @ \ {tm},
                           !.obs.resumed = waiters,
                           !.requests = [r \in DOMAIN @ |->
                                           IF r \in waiters
                                           THEN [@[r] EXCEPT !.pc = "gate", !.awaits = Null]
                                           ELSE @[r]]]
    /\ UNCHANGED <<qvars, svars, hvars, cvars, tvars, bvars>>

\* a sleep() of a request is over
RestWake ==
    /\ \E r \in DOMAIN rest.requests :
         /\ rest.requests[r].pc \in {"sleep", "sublimit", "backoff"}
         /\ rest.requests[r].wake <= now
         /\ rest' = IF rest.requests[r].pc = "sleep"
                    THEN [RestBegin(rest) EXCEPT !.requests[r].pc = "gate",
                                              !.requests[r].wake = 0]
                    ELSE Retry([RestBegin(rest) EXCEPT !.requests[r].wake = 0], r)
    /\ UNCHANGED <<qvars, svars, hvars, cvars, tvars, bvars>>

\* the answers the server may give to the call of request r
Answers(r) ==
    LET q == rest.requests[r]
    IN  {<<"4xx", NoHeaders>>}
        \cup (IF q.retries < rest.env.retries
              THEN {<<"error", NoHeaders>>, <<"5xx", NoHeaders>>, <<"captcha", NoHeaders>>}
              ELSE {})
        \cup {<<"ok", hdr>> : hdr \in {x \in Headers : /\ x.retryAfter = 0 /\ ~x.global
                                                        /\ x.scope = "none"
                                                        /\ x.bucket # "left"}}
        \cup (IF q.retries < rest.env.retries
              THEN {<<"429", hdr>> : hdr \in {x \in Headers :
                                              /\ x.retryAfter > 0
                                              /\ \/ x.bucket = "none"
                                                 \/ ~x.global /\ x.scope = "none"}}
              ELSE {})
        \cup (IF /\ q.retries < rest.env.retries
                 /\ q.retries >= 1 \/ (q.parent = 0 /\ Len(rest.requests) < rest.env.requests)
              THEN {<<"mfa", NoHeaders>>} ELSE {})

\* the answers of a server that asks for no captcha, answers with no 5xx
\* (a failed call is a network error) and sends no x-ratelimit-scope header
\* and no bucket with calls left
PlainAnswers(r) ==
    {a \in Answers(r) : /\ a[1] \notin {"captcha", "5xx"}
                        /\ a[2].scope = "none" /\ a[2].bucket # "left"}

\* request.make() of a call in flight completes, with any answer or with one
\* of the plain answers
RestRespondAmong(plain) ==
    /\ \E r \in DOMAIN rest.requests :
         /\ rest.requests[r].pc = "flight"
         /\ \E a \in (IF plain THEN PlainAnswers(r) ELSE Answers(r)) :
              LET R == Respond(RestBegin(rest), r, a[1], a[2], now)
              IN  rest' = [R EXCEPT !.obs.answered =
                             <<[request |-> r, webhook |-> rest.requests[r].webhook,
                                kind |-> a[1], scope |-> a[2].scope,
                                global |-> a[2].global, bucket |-> a[2].bucket,
                                retries |-> rest.requests[r].retries,
                                captchas |-> rest.requests[r].counts.captcha,
                                invalid |-> IF a[1] = "error" THEN 0
                                            ELSE InvalidCounted(StatusOf(a[1]), a[2]),
                                globalChanged |->
                                    \/ R.globalRemaining # rest.globalRemaining
                                    \/ R.globalReset # rest.globalReset]>>]
    /\ UNCHANGED <<qvars, svars, hvars, cvars, tvars, bvars>>

\* request.make() of a call in flight completes
RestRespond == RestRespondAmong(FALSE)

\* a second passes; timers fire at their due time
RestTick ==
    /\ now < RestMaxTime
    /\ \A tm \in rest.globalTimers : tm.due > now
    /\ \A r \in DOMAIN rest.requests :
         rest.requests[r].pc \in {"sleep", "sublimit", "backoff"} =>
             rest.requests[r].wake > now
    /\ now' = now + 1
    /\ rest' = RestBegin(rest)
    /\ UNCHANGED <<sched, shardOpen, nextFrame, lastOp, qvars, hvars, cvars, tvars, bvars>>

RestNext == RestPush \/ RestRun \/ RestGlobalDelay \/ RestWake \/ RestRespond \/ RestTick

(***************************************************************************)
(* The API router (src/rest/APIRouter.js).  A segment, a path and a bucket *)
(* route are sequences of characters.                                      *)
(***************************************************************************)
Digits == {"0", "1", "2", "3", "4", "5", "6", "7", "8", "9"}

\* n times the character c
Rep(n, c) == [i \in 1..n |-> c]

Channels == <<"c", "h", "a", "n", "n", "e", "l", "s">>
Guilds == <<"g", "u", "i", "l", "d", "s">>
Webhooks == <<"w", "e", "b", "h", "o", "o", "k", "s">>
Messages == <<"m", "e", "s", "s", "a", "g", "e", "s">>
Reactions == <<"r", "e", "a", "c", "t", "i", "o", "n", "s">>
AtMe == <<"@", "m", "e">>
Emoji == <<"%", "F", "0", "%", "9", "F", "%", "9", "8", "%", "8", "0">>
IdPlaceholder == <<":", "i", "d">>

\* const majorIdRoutes = new Set(['channels', 'guilds', 'webhooks'])
majorIdRoutes == {Channels, Guilds, Webhooks}

\* a test that no segment passes
IdRouteRegexNever(seg) == FALSE

\* idRouteRegex.test(seg) with idRouteRegex = /\d{16,19}/: sixteen digits in
\* a row somewhere in the segment
idRouteRegexTest(seg) ==
    \E i \in 1..(Len(seg) - 15) : \A j \in i..(i + 15) : seg[j] \in Digits

\* createProxy({ path: '', bucketRoute: '', bucketFrozen: false, prev: '' })
NewRoute == [path |-> <<>>, bucketRoute |-> <<>>, bucketFrozen |-> FALSE, prev |-> <<>>]

\* a freeze that the reactions segment does not start
FreezeNever(state) == state.bucketFrozen

\* appendSegment: const freezeBuckets
freezeBuckets(state) == state.bucketFrozen \/ state.prev = Reactions

appendSegment(state, seg) ==
    LET nextPath == state.path \o <<"/">> \o seg
        bucketSegment == IF idRouteRegexTest(seg) /\ state.prev \notin majorIdRoutes
                         THEN IdPlaceholder ELSE seg
    IN  IF freezeBuckets(state)
        THEN [path |-> nextPath, bucketRoute |-> state.bucketRoute,
              bucketFrozen |-> TRUE, prev |-> seg]
        ELSE [path |-> nextPath, bucketRoute |-> state.bucketRoute \o <<"/">> \o bucketSegment,
              bucketFrozen |-> FALSE, prev |-> seg]

\* an argument that is null or undefined; no segment is written like it
NullArg == <<"null">>

RECURSIVE applyArgs(_, _)
\* handler.apply: every argument that is not null or undefined is appended
applyArgs(state, args) ==
    IF args = <<>> THEN state
    ELSE applyArgs(IF Head(args) = NullArg THEN state ELSE appendSegment(state, Head(args)),
                   Tail(args))

\* the segments written to a chain: names, ids of 16 and 18 digits, digit
\* strings of 15 and of 20 digits, an encoded emoji
IdSegments == {Rep(18, "1"), Rep(18, "2"), Rep(16, "3"), Rep(20, "5")}
Segments == majorIdRoutes \cup {Messages, Reactions, AtMe, Emoji, Rep(15, "4")}
                \cup IdSegments

\* channels/111111111111111111/messages/222222222222222222/reactions/%F0%9F%98%80/@me
ExampleChain == <<Channels, Rep(18, "1"), Messages, Rep(18, "2"), Reactions, Emoji, AtMe>>

\* the chains written: the short ones, a null argument included, and the example
Chains ==
    UNION {[1..n -> Segments \cup {NullArg}] : n \in 0..MaxChain} \cup {ExampleChain}

\* the proxy a chain written in one call leads to
BuildRoute(chain) == applyArgs(NewRoute, chain)

RouteNew == [todo |-> <<>>, done |-> <<>>, state |-> NewRoute, started |-> FALSE]

RouteInit == rt = RouteNew

\* buildRoute(manager): the root proxy of a chain the caller goes on to write
RouteBuild ==
    /\ ~rt.started
    /\ \E chain \in Chains :
         rt' = [RouteNew EXCEPT !.todo = chain, !.started = TRUE]
    /\ UNCHANGED <<qvars, svars, hvars, cvars, rvars, bvars>>

\* handler.get: a property access appends its name
RouteGet ==
    /\ rt.todo # <<>>
    /\ Head(rt.todo) # NullArg
    /\ rt' = [rt EXCEPT !.todo = Tail(@), !.done = Append(@, Head(rt.todo)),
                        !.state = appendSegment(@, Head(rt.todo))]
    /\ UNCHANGED <<qvars, svars, hvars, cvars, rvars, bvars>>

\* handler.apply: a call appends its arguments
RouteApply ==
    /\ \E n \in 1..2 :
         /\ n <= Len(rt.todo)
         /\ LET args == SubSeq(rt.todo, 1, n)
            IN  rt' = [rt EXCEPT !.todo = SubSeq(@, n + 1, Len(@)),
                                 !.done = @ \o SelectSeq(args, LAMBDA a : a # NullArg),
                                 !.state = applyArgs(@, args)]
    /\ UNCHANGED <<qvars, svars, hvars, cvars, rvars, bvars>>

RouteNext == RouteBuild \/ RouteGet \/ RouteApply

(***************************************************************************)
(* BucketSpec: RESTManager.request() choosing the handler of a request,    *)
(* the responses binding (method, route) to the bucket hash they carry and *)
(* the sweep that forgets inactive handlers.                               *)
(***************************************************************************)
\* the verbs of the router (APIRouter.js `methods`), as the proxy passes them
Methods == {"get", "post"}

\* String(method).toUpperCase()
ToUpperCase(method) ==
    CASE method = "get" -> "GET"
      [] method = "post" -> "POST"
      [] OTHER -> method

\* bucket routes as the router writes them
BucketRoutes == {"/channels/1/messages", "/channels/1/messages/:id"}

\* values of the x-ratelimit-bucket header; NoHash for a response without it
Hashes == {"a", "b"}
NoHash == "none"

\* _routeKey(method, route)
RouteKey(method, route) == <<ToUpperCase(method), route>>

RouteKeys == {RouteKey(m, r) : m \in Methods, r \in BucketRoutes}

\* number of the RequestHandler objects constructed in a run, and of the
\* requests under way at a time
MaxBucketHandlers == 2
MaxInFlight == 2

NoBucketObs == [handler |-> Null, fresh |-> FALSE, hash |-> NoHash,
                registered |-> Null, byRoute |-> Null]

BucketNew ==
    [handlers |-> [r \in BucketRoutes |-> Null],
     routeBuckets |-> [k \in RouteKeys |-> NoHash],
     bucketHandlers |-> [h \in Hashes |-> Null],
     created |-> 0,
     pending |-> <<>>,
     limited |-> {},
     obs |-> NoBucketObs]

BucketInit == bk = BucketNew

\* request(): a handler that looks the route up before the bucket hash
SelectHandlerRouteFirst(B, method, route) ==
    IF B.handlers[route] # Null
    THEN B.handlers[route]
    ELSE LET bucketHash == B.routeBuckets[RouteKey(method, route)]
         IN  IF bucketHash # NoHash THEN B.bucketHandlers[bucketHash] ELSE Null

\* request(): the handler found for the request, Null when one is to be made
SelectHandler(B, method, route) ==
    LET bucketHash == B.routeBuckets[RouteKey(method, route)]
        handler == IF bucketHash # NoHash THEN B.bucketHandlers[bucketHash] ELSE Null
    IN  IF handler # Null THEN handler ELSE B.handlers[route]

\* bindBucket(method, route, bucketHash, handler)
bindBucket(B, method, route, bucketHash, handler) ==
    IF bucketHash = NoHash \/ handler = Null
    THEN B
    ELSE [B EXCEPT !.bucketHandlers[bucketHash] = handler,
                   !.routeBuckets[RouteKey(method, route)] = bucketHash]

\* handler._inactive: nothing queued and no rate limit in force
Inactive(B, handler) ==
    /\ \A i \in DOMAIN B.pending : B.pending[i].handler # handler
    /\ handler \notin B.limited

\* request(method, url, options) up to handler.push(apiRequest)
Request(B, method, route) ==
    LET routeKey == RouteKey(method, route)
        bucketHash == B.routeBuckets[routeKey]
        found == SelectHandler(B, method, route)
        handler == IF found # Null THEN found ELSE B.created + 1
        B1 == [B EXCEPT !.created = IF found # Null THEN @ ELSE @ + 1,
                        !.handlers[route] = handler,
                        !.pending = Append(@, [method |-> method, route |-> route,
                                               handler |-> handler])]
        B2 == IF bucketHash # NoHash
              THEN [B1 EXCEPT !.bucketHandlers[bucketHash] = handler]
              ELSE B1
    IN  [B2 EXCEPT !.obs = [handler |-> handler,
                            fresh |-> found = Null, hash |-> bucketHash,
                            registered |-> IF bucketHash # NoHash
                                           THEN B.bucketHandlers[bucketHash] ELSE Null,
                            byRoute |-> B.handlers[route]]]

\* the setInterval callback of the constructor
Sweep(B) ==
    LET handlers == [r \in BucketRoutes |->
                        IF B.handlers[r] # Null /\ Inactive(B, B.handlers[r])
                        THEN Null ELSE B.handlers[r]]
        bucketHandlers == [h \in Hashes |->
                              IF B.bucketHandlers[h] # Null /\ Inactive(B, B.bucketHandlers[h])
                              THEN Null ELSE B.bucketHandlers[h]]
        routeBuckets == [k \in RouteKeys |->
                            IF B.routeBuckets[k] # NoHash /\
                               bucketHandlers[B.routeBuckets[k]] = Null
                            THEN NoHash ELSE B.routeBuckets[k]]
    IN  [B EXCEPT !.handlers = handlers, !.bucketHandlers = bucketHandlers,
                  !.routeBuckets = routeBuckets]

\* the requests a handler is executing: the first one of its queue
Executing(B) ==
    {i \in DOMAIN B.pending :
        \A j \in 1..(i - 1) : B.pending[j].handler # B.pending[i].handler}

BucketRequest ==
    /\ Len(bk.pending) < MaxInFlight
    /\ \E method \in Methods, route \in BucketRoutes :
         /\ SelectHandler(bk, method, route) = Null => bk.created < MaxBucketHandlers
         /\ bk' = Request(bk, method, route)
    /\ UNCHANGED <<qvars, svars, hvars, cvars, rvars, tvars>>

\* a response to the request a handler is executing: its headers are applied;
\* the request settles, or is tried again after the limit the response set
BucketRespond ==
    /\ \E i \in Executing(bk), bucketHash \in Hashes \cup {NoHash},
          settles \in BOOLEAN, limits \in BOOLEAN :
         LET q == bk.pending[i]
             B1 == bindBucket([bk EXCEPT !.obs = NoBucketObs],
                              q.method, q.route, bucketHash, q.handler)
             B2 == [B1 EXCEPT !.limited = IF limits THEN @ \cup {q.handler}
                                          ELSE @ \ {q.handler}]
         IN  bk' = IF settles
                   THEN [B2 EXCEPT !.pending = SubSeq(@, 1, i - 1) \o
                                               SubSeq(@, i + 1, Len(@))]
                   ELSE B2
    /\ UNCHANGED <<qvars, svars, hvars, cvars, rvars, tvars>>

\* the reset time of a handler's rate limit passes
BucketReset ==
    /\ \E handler \in bk.limited :
         bk' = [bk EXCEPT !.limited = @ \ {handler}, !.obs = NoBucketObs]
    /\ UNCHANGED <<qvars, svars, hvars, cvars, rvars, tvars>>

BucketSweep ==
    /\ bk' = Sweep([bk EXCEPT !.obs = NoBucketObs])
    /\ bk' # bk
    /\ UNCHANGED <<qvars, svars, hvars, cvars, rvars, tvars>>

BucketNext == BucketRequest \/ BucketRespond \/ BucketReset \/ BucketSweep


Init == QInit /\ SInit /\ HInit /\ CInit /\ RestInit /\ RouteInit /\ BucketInit

BucketSpec == Init /\ [][BucketNext]_vars

RouteSpec == Init /\ [][RouteNext]_vars

RestSpec == Init /\ [][RestNext]_vars

(***************************************************************************)
(* SettleSpec: the runs of RestSpec with many requests, the client option  *)
(* rejectOnRateLimit set to a function, which decides call by call whether *)
(* onRateLimit throws.                                                     *)
(***************************************************************************)
\* run(): the rate-limit loop finds a limit, _getDelayPromise() has made the
\* delay promise, and onRateLimit() throws RateLimitError
RunRejected(R, r, t) ==
    LET q == R.requests[r]
        lim == getActiveRateLimit(R, q.handler, t, q.webhook)
        delay == IF lim.timeout > 0 THEN lim.timeout ELSE 0
    IN  Finish(IF lim.isGlobal THEN GlobalDelay(R, delay, t) ELSE R, r, "rejected")

XRespond == RestRespondAmong(TRUE)

XRunReject ==
    /\ \E r \in DOMAIN rest.requests :
         /\ rest.requests[r].pc = "gate"
         /\ getActiveRateLimit(rest, rest.requests[r].handler, now,
                               rest.requests[r].webhook).limited
         /\ rest' = RunRejected(RestBegin(rest), r, now)
    /\ UNCHANGED <<qvars, svars, hvars, cvars, tvars, bvars>>

\* a 429 answer for which onRateLimit() throws RateLimitError, after the
\* headers and the global limit were applied
XRespondReject ==
    /\ \E r \in DOMAIN rest.requests :
         /\ rest.requests[r].pc = "flight"
         /\ \E a \in PlainAnswers(r) :
              /\ a[1] = "429"
              /\ LET h == rest.requests[r].handler
                     R1 == applyHeaders(RestBegin(rest), h, a[2], now)
                 IN  rest' = Finish(On429(R1, r, sublimitTimeout(R1, h, a[2], now), a[2], now),
                                    r, "rejected")
    /\ UNCHANGED <<qvars, svars, hvars, cvars, tvars, bvars>>

\* the application requests a route, in a run of many requests
XPush ==
    /\ Len(rest.requests) < MaxRequests
    /\ \E route \in Routes :
         rest' = Push([RestBegin(rest) EXCEPT !.env = [requests |-> MaxRequests,
                                                       retries |-> MaxProvoked]],
                      route[1], route[2], 0)
    /\ UNCHANGED <<qvars, svars, hvars, cvars, tvars, bvars>>

XNext ==
    \/ XPush \/ RestRun \/ RestGlobalDelay \/ RestWake \/ XRespond \/ RestTick
    \/ XRunReject \/ XRespondReject

SettleSpec == Init /\ [][XNext]_vars

ChunkSpec == Init /\ [][CNext]_vars

Spec == Init /\ [][Next]_vars

(***************************************************************************)
(* FlowSpec: the scheduler on a connection that stays OPEN and is never    *)
(* cleared, with frames enqueued for as long as the run lasts: payloads    *)
(* are reused once sent, the frames queued at a time and the important     *)
(* streak are capped, and a normal frame is enqueued while the time that   *)
(* ImportantBurst + 1 dispatches take still fits into the run.  Timers     *)
(* fire when due, before the clock moves on.                               *)
(***************************************************************************)
FlowMaxTime == 8
MaxQueued == 3
MaxStreak == 3

\* milliseconds in which a token is refilled, and in which ImportantBurst
\* important frames and one normal frame are dispatched
TokenWait == CeilDiv(WindowMs, Capacity)
NormalWait == (ImportantBurst + 1) * TokenWait

\* a payload that is not pending
FreePayload(s) == MinOf((1..(MaxQueued + 1)) \ (s.pendI \cup s.pendN))

FEnqueue ==
    /\ SchedLength(sched) < MaxQueued
    /\ \E important \in BOOLEAN :
         /\ important => sched.importantStreak < MaxStreak
         /\ ~important => sched.pendN = {} /\ now + NormalWait <= FlowMaxTime
         /\ sched' = Enqueue(Begin(sched), FreePayload(sched), important, now, shardOpen)
    /\ lastOp' = OtherOp
    /\ UNCHANGED <<now, shardOpen, nextFrame, qvars, hvars, cvars, rvars, tvars, bvars>>

FTimerDue == \E tm \in sched.armed : now >= tm.due

FTick == ~FTimerDue /\ STickUpTo(FlowMaxTime)

FNext == FEnqueue \/ SProcess \/ STimerFire \/ FTick

\* the event loop runs the timers that are due and the clock goes on: weak
\* fairness of STimerFire, with its enabling condition written out, and of
\* FTick
FlowSpec ==
    /\ Init /\ [][FNext]_vars
    /\ WF_vars(FTick)
    /\ ([]<>~FTimerDue \/ []<><<STimerFire>>_vars)

(***************************************************************************)
(* ConserveSpec: the scheduler on a connection that stays OPEN and is      *)
(* never cleared, with a listener of the client's debug event that calls   *)
(* shard.send() from inside shard._send(): finitely many frames, each with *)
(* a payload of its own, enqueued while the time their dispatch takes      *)
(* still fits into the run.                                                *)
(***************************************************************************)
ConserveMaxTime == 12
ConserveFrames == 5

\* what the debug listener does during one operation of the scheduler: at
\* the at-th call of shard._send made by the operation's own loop it calls
\* shard.send(data, important); at = 0 when it calls nothing
NoCall == [at |-> 0, data |-> 0, important |-> FALSE]
Calls(data) == {NoCall} \cup [at : 1..2, data : {data}, important : BOOLEAN]

\* a loop that reads the next frame, sends it and only then removes it
RECURSIVE ProcessLoopShiftAfterSend(_, _, _, _)
ProcessLoopShiftAfterSend(s, t, k, call) ==
    IF s.tokens >= OneToken /\ SchedLength(s) > 0
    THEN IF DequeueValue(s) = Undefined THEN DequeueSched(s)
         ELSE LET s1 == RawSend(s, s, DequeueValue(s), t, TRUE)
                  s2 == IF call.at = k + 1
                        THEN Enqueue(s1, call.data, call.important, t, TRUE)
                        ELSE s1
                  s3 == DequeueSched(s2)
              IN  ProcessLoopShiftAfterSend([s3 EXCEPT !.tokens = @ - OneToken], t, k + 1, call)
    ELSE s

\* the while loop of process() with the listener: shard._send(next) logs the
\* frame through this.debug(), the listener's shard.send() runs enqueue()
\* and process() to their end, and then the loop takes its token
RECURSIVE ProcessLoopListening(_, _, _, _)
ProcessLoopListening(s, t, k, call) ==
    IF s.tokens >= OneToken /\ SchedLength(s) > 0
    THEN IF DequeueValue(s) = Undefined THEN DequeueSched(s)
         ELSE LET s1 == RawSend(DequeueSched(s), s, DequeueValue(s), t, TRUE)
                  s2 == IF call.at = k + 1
                        THEN Enqueue(s1, call.data, call.important, t, TRUE)
                        ELSE s1
              IN  ProcessLoopListening([s2 EXCEPT !.tokens = @ - OneToken], t, k + 1, call)
    ELSE s

\* process() with the listener
ProcessListening(s, t, call) ==
    LET s1 == ProcessLoopListening(Refill(s, t), t, 0, call)
    IN  IF SchedLength(s1) > 0 THEN Schedule(s1, t) ELSE CancelTimer(s1)

\* enqueue(data, important) with the listener
EnqueueListening(s, data, important, t, call) ==
    LET s1 == IF important
              THEN [s EXCEPT !.importantQueue = FQUnshift(@, data), !.pendI = @ \cup {data}]
              ELSE [s EXCEPT !.normalQueue = FQPush(@, data), !.pendN = @ \cup {data}]
    IN  ProcessListening(s1, t, call)

\* the payloads handed to shard._send by the latest operation
LogIds(s) == {s.log[i].id : i \in DOMAIN s.log}

\* the payloads up to n that the scheduler has seen after the operation
Used(s, n) == IF n \in s.pendI \cup s.pendN \cup LogIds(s) THEN n ELSE n - 1

\* the frames queued now, two more and the token a nested process() took in
\* advance are dispatched before the run ends
TimeLeft == now + (SchedLength(sched) + 3) * TokenWait <= ConserveMaxTime

VEnqueue ==
    /\ nextFrame + 1 <= ConserveFrames
    /\ TimeLeft
    /\ \E important \in BOOLEAN, call \in Calls(nextFrame + 1) :
         sched' = EnqueueListening(Begin(sched), nextFrame, important, now, call)
    /\ nextFrame' = Used(sched', nextFrame + 1) + 1
    /\ lastOp' = OtherOp
    /\ UNCHANGED <<now, shardOpen, qvars, hvars, cvars, rvars, tvars, bvars>>

\* shard.processQueue()
VProcess ==
    /\ \E call \in Calls(nextFrame) :
         /\ call # NoCall => nextFrame <= ConserveFrames /\ TimeLeft
         /\ sched' = ProcessListening(Begin(sched), now, call)
    /\ nextFrame' = Used(sched', nextFrame) + 1
    /\ lastOp' = OtherOp
    /\ UNCHANGED <<now, shardOpen, qvars, hvars, cvars, rvars, tvars, bvars>>

VTimerFire ==
    /\ \E tm \in sched.armed, call \in Calls(nextFrame) :
         /\ now >= tm.due
         /\ call # NoCall => nextFrame <= ConserveFrames /\ TimeLeft
         /\ sched' = ProcessListening([Begin(sched) EXCEPT !.armed = @ \ {tm},
                                                           !.timer = NoTimer], now, call)
    /\ nextFrame' = Used(sched', nextFrame) + 1
    /\ lastOp' = OtherOp
    /\ UNCHANGED <<now, shardOpen, qvars, hvars, cvars, rvars, tvars, bvars>>

VTick == ~FTimerDue /\ STickUpTo(ConserveMaxTime)

VNext == VEnqueue \/ VProcess \/ VTimerFire \/ VTick

\* the event loop runs the timers that are due and the clock goes on
ConserveSpec ==
    /\ Init /\ [][VNext]_vars
    /\ WF_vars(VTick)
    /\ ([]<>~FTimerDue \/ []<><<VTimerFire>>_vars)

QSpec == Init /\ [][QNext]_vars

HbSpec == Init /\ [][HNext]_vars

(***************************************************************************)
(* ReconnectSpec: the shard through a second connection, over a shorter    *)
(* time, a socket delivering packets only while it is open.                *)
(***************************************************************************)
Open == {i \in Delivering : shard.sockets[i].readyState = "OPEN"}

RConnect == HConnectUpTo(ReconnectMaxSockets)

RTick == HTickUpTo(ReconnectMaxTime)

RNext ==
    \/ RConnect \/ HSocketOpen \/ HSocketClose
    \/ HRecvHelloFrom(Open) \/ HRecvReadyFrom(Open) \/ HRecvResumedFrom(Open)
    \/ HRecvHeartbeatAckFrom(Open)
    \/ HRecvReconnectFrom(Open) \/ HRecvInvalidSessionFrom(Open)
    \/ HRecvGuildCreateFrom(Open) \/ HCheckReady \/ HTimerFire \/ RTick

ReconnectSpec == Init /\ [][RNext]_vars

\* the shard through a connection left without heartbeat acknowledgements
\* and the connection that follows it
ZTick == HTickUpTo(ZombieMaxTime)

ZNext ==
    \/ RConnect \/ HSocketOpen \/ HSocketClose
    \/ HRecvHelloFrom(Open) \/ HRecvReadyFrom(Open) \/ HRecvResumedFrom(Open)
    \/ HRecvHeartbeatAckFrom(Open) \/ HSend \/ HCheckReady \/ HTimerFire \/ ZTick

ZombieSpec == Init /\ [][ZNext]_vars

\* the shard through three connections of one session, before any timer is
\* due
SessionMaxSockets == 3

NConnect == HConnectUpTo(SessionMaxSockets)

NNext ==
    \/ NConnect \/ HSocketOpen \/ HSocketClose
    \/ HRecvHelloFrom(Open) \/ HRecvReadyFrom(Open) \/ HRecvResumedFrom(Open)
    \/ HRecvReconnectFrom(Open) \/ HCheckReady

SessionSpec == Init /\ [][NNext]_vars

(***************************************************************************)
(* ReadySpec: one connection of a shard constructed with or without the    *)
(* GUILDS intent, from READY to the promotion.  READY and GUILD_CREATE     *)
(* arrive while a waitGuildTimeout still fits into the run; the            *)
(* checkReady() the READY handler defers in a microtask runs before time   *)
(* passes.  Timers, microtasks and the clock are never held up for ever.   *)
(***************************************************************************)
LConnect ==
    /\ Len(shard.sockets) < MaxSockets
    /\ Len(shard.promises) < MaxPromises
    /\ \E intent \in (IF shard.sockets = <<>> THEN BOOLEAN ELSE {shard.hasGuildsIntent}) :
         shard' = Settle(Connect([HBegin(shard) EXCEPT !.hasGuildsIntent = intent], now))
    /\ UNCHANGED <<now, sched, shardOpen, nextFrame, lastOp, qvars, cvars, rvars, tvars, bvars>>

LRecvReady == now + WaitGuildTimeout <= ReadyMaxTime /\ HRecvReady

LRecvGuildCreate == now + WaitGuildTimeout <= ReadyMaxTime /\ HRecvGuildCreate

LTick == shard.pendingCheckReady = 0 /\ HTickUpTo(ReadyMaxTime)

LNext ==
    \/ LConnect \/ HSocketOpen \/ HSocketClose
    \/ HRecvHello \/ LRecvReady \/ LRecvGuildCreate \/ HRecvHeartbeatAck
    \/ HRecvInvalidSession \/ HCheckReady \/ HTimerFire \/ LTick

\* a timer is due: HTimerFire is enabled, and firing changes shard.timers
TimerDue == \E tm \in shard.timers : tm.due <= now

\* weak fairness of the deferred checkReady(); the clock goes on to the end
\* of the run, however many packets and calls there are; weak fairness of
\* HTimerFire with its enabling condition written out
ReadySpec ==
    /\ Init /\ [][LNext]_vars
    /\ WF_vars(HCheckReady)
    /\ ([]<><<LTick>>_vars \/ <>[](now = ReadyMaxTime))
    /\ ([]<>~TimerDue \/ []<><<HTimerFire>>_vars)


(***************************************************************************)
(* ShimSpec: Spec plus the shard's `ratelimit` property, the accessor kept *)
(* for code written against the former rate-limit object.  Its queue       *)
(* methods reach into the scheduler without calling process().             *)
(***************************************************************************)
\* values assigned to ratelimit.remaining, in tokens; NotFinite stands for
\* NaN, Infinity and undefined
NotFinite == -99
RemainingInputs == {-1, 0, 1, Capacity, Capacity + 1, NotFinite}

\* set remaining(value)
SetRemaining(s, value) ==
    [s EXCEPT !.tokens = IF value # NotFinite THEN value * OneToken ELSE FullBucket]

\* ratelimit.queue.push(value)
ShimPush(s, value) == [s EXCEPT !.normalQueue = FQPush(@, value), !.pendN = @ \cup {value}]

\* ratelimit.queue.unshift(value)
ShimUnshift(s, value) ==
    [s EXCEPT !.importantQueue = FQUnshift(@, value), !.pendI = @ \cup {value}]

\* ratelimit.queue.clear()
ShimClear(s) ==
    [s EXCEPT !.normalQueue = FQClear(@), !.importantQueue = FQClear(@),
              !.importantStreak = 0, !.pendI = {}, !.pendN = {}, !.impRun = 0]

RSetRemaining ==
    /\ \E value \in RemainingInputs : sched' = SetRemaining(Begin(sched), value)
    /\ lastOp' = OtherOp
    /\ UNCHANGED <<now, shardOpen, nextFrame, qvars, hvars, cvars, rvars, tvars, bvars>>

RQueuePush ==
    /\ nextFrame <= ShimMaxFrames
    /\ sched' = ShimPush(Begin(sched), nextFrame)
    /\ nextFrame' = nextFrame + 1
    /\ lastOp' = OtherOp
    /\ UNCHANGED <<now, shardOpen, qvars, hvars, cvars, rvars, tvars, bvars>>

RQueueUnshift ==
    /\ nextFrame <= ShimMaxFrames
    /\ sched' = ShimUnshift(Begin(sched), nextFrame)
    /\ nextFrame' = nextFrame + 1
    /\ lastOp' = OtherOp
    /\ UNCHANGED <<now, shardOpen, qvars, hvars, cvars, rvars, tvars, bvars>>

\* ratelimit.queue.shift(): scheduler._dequeue(), the frame goes to the caller
RQueueShift ==
    /\ sched' = DequeueSched(Begin(sched))
    /\ lastOp' = OtherOp
    /\ UNCHANGED <<now, shardOpen, nextFrame, qvars, hvars, cvars, rvars, tvars, bvars>>

RQueueClear ==
    /\ sched' = ShimClear(Begin(sched))
    /\ lastOp' = OtherOp
    /\ UNCHANGED <<now, shardOpen, nextFrame, qvars, hvars, cvars, rvars, tvars, bvars>>

ShimNext ==
    \/ SEnqueueUpTo(ShimMaxFrames) \/ SProcess \/ STimerFire \/ SClear \/ SShardFlip
    \/ STickUpTo(ShimMaxTime)
    \/ RSetRemaining \/ RQueuePush \/ RQueueUnshift \/ RQueueShift \/ RQueueClear

ShimSpec == Init /\ [][ShimNext]_vars

(***************************************************************************)
(* Properties of the ring queue (QSpec)                                    *)
(***************************************************************************)
\* the ring's size stays 16 * 2^k, which is what makes Mask the index mask
FQBackIsPowerOfTwo == Len(fq.back) \in {16, 32, 64, 128}

Fronts(S) == {v \in S : v < 0}
Backs(S) == {v \in S : v > 0}

\* C7 - ring queue ordering (P3).  shift() returns undefined exactly when the
\* queue holds nothing.  Otherwise, while items inserted by unshift() are
\* held it returns the one inserted last (reverse arrival order, and before
\* every item inserted by push()); when none is held it returns the item
\* inserted by push() that arrived first.  Growth and shrink of the ring
\* do not disturb this.
C7_RingQueueOrder ==
    LET p == fqLast.present
    IN  /\ fqLast.v = Undefined <=> fqLast.present = {} \/ fqLast = NoShift
        /\ p # {} =>
             IF Fronts(p) # {} THEN fqLast.v = MinOf(Fronts(p))
             ELSE fqLast.v = MinOf(Backs(p))
        /\ fqPresent = {} <=> FQLength(fq) = 0

\* a shift() that made the 64-slot ring shrink to 32 slots, in a run that also
\* used unshift(): the ring has grown twice and shrunk once
C7_Witness ==
    /\ fqLast.v = 18
    /\ Cardinality(Backs(fqLast.present)) = 17
    /\ Len(fq.back) = 32
    /\ fq.backLength = 16
    /\ fq.backHead = 0
    /\ fqFrontCount > 0

(***************************************************************************)
(* Properties of the send scheduler (Spec, ShimSpec)                       *)
(***************************************************************************)
\* C1 - scheduler pacing (P1): every interval of windowMs milliseconds holds
\* at most `capacity` calls of the shard's raw send.  sentAt lists the calls
\* of the interval (now - windowMs, now]; it starts afresh at a clear(), so
\* that only the sends of one connection are counted together.
C1_Pacing == Len(sched.sentAt) <= Capacity

\* C2 - the token count stays within 0 .. capacity, also when the shard's
\* rate-limit accessor is written.
C2_TokensInRange == 0 <= sched.tokens /\ sched.tokens <= FullBucket

C5_SingleTimer == Cardinality(sched.armed) <= 1

\* two frames wait on one timer: the enqueue of the second found the timer
\* of the first pending
C5_Witness ==
    /\ SchedLength(sched) >= 2
    /\ sched.tokens < OneToken
    /\ Cardinality(sched.armed) = 1

\* C6 - clear is observable and idempotent: after clear(), and again after a
\* second clear(), both queues are empty, no timer is armed, the tokens
\* equal the capacity and the important streak is 0.
C6_ClearObservable ==
    lastOp.op = "clear" =>
        /\ SchedLength(sched) = 0
        /\ FQLength(sched.importantQueue) = 0 /\ FQLength(sched.normalQueue) = 0
        /\ sched.timer = NoTimer /\ sched.armed = {}
        /\ sched.tokens = FullBucket
        /\ sched.importantStreak = 0

\* a second clear() in a row, the first having dropped frames and a timer
C6_Witness == lastOp.op = "clear" /\ lastOp.run = 2 /\ lastOp.dropped >= 3

\* C8 - outbound frame ordering: an important frame that is sent is the
\* latest enqueued of the important frames queued at that moment; a normal
\* frame that is sent is the earliest enqueued of the normal frames queued.
C8_FrameOrder ==
    \A i \in DOMAIN sched.log :
        LET e == sched.log[i]
        IN  IF e.important
            THEN e.id \in e.pendI /\ e.id = MaxOf(e.pendI)
            ELSE e.id \in e.pendN /\ e.id = MinOf(e.pendN)

\* one wakeup sent an important frame out of several queued ones
C8_Witness ==
    \E i \in DOMAIN sched.log :
        /\ sched.log[i].important
        /\ Cardinality(sched.log[i].pendI) >= 2
        /\ Cardinality(sched.log[i].pendN) >= 2

(***************************************************************************)
(* Heartbeats                                                              *)
(***************************************************************************)
\* C9 as stated - zombie detection: while the connection is open and the
\* shard is Ready, no more than 2 x HbInterval has passed since the last
\* acknowledged heartbeat was sent (by then the shard has closed it).
C9_ZombieWithinTwoIntervals ==
    (/\ ConnectionOpen(shard)
     /\ shard.status = "READY"
     /\ shard.ackedSentAt # None)
        => now - shard.ackedSentAt <= 2 * HbInterval

\* C9 amended - zombie detection, provided no heartbeat timer has found the
\* shard Identifying, Resuming or WaitingForGuilds with a heartbeat
\* unacknowledged: an open connection is no older than 2 x HbInterval past
\* the last acknowledged heartbeat, and a connection found to be a zombie is
\* closed with code 4009 and left.
C9_ZombieDetection ==
    /\ (/\ ConnectionOpen(shard)
        /\ shard.ackedSentAt # None
        /\ ~shard.excused)
           => now - shard.ackedSentAt <= 2 * HbInterval
    /\ \A i \in DOMAIN shard.obs.hb :
          LET e == shard.obs.hb[i]
          IN  e.outcome = "zombie" =>
                /\ ~e.acked
                /\ shard.connection = Null
                /\ \A j \in DOMAIN shard.obs.closes : shard.obs.closes[j].code = 4009
                /\ (e.sinceAck # None /\ ~e.excused) => e.sinceAck <= 2 * HbInterval

\* a Ready shard closes its open connection with 4009 exactly 2 x HbInterval
\* after the last acknowledged heartbeat
C9_Witness ==
    \E i \in DOMAIN shard.obs.hb :
        LET e == shard.obs.hb[i]
        IN  /\ e.outcome = "zombie" /\ e.status = "READY" /\ e.tag = "HeartbeatTimer"
            /\ e.sinceAck = 2 * HbInterval /\ ~e.excused
            /\ shard.obs.closes # <<>>
            /\ \A j \in DOMAIN shard.obs.closes : shard.obs.closes[j].code = 4009

\* C10 as stated - a heartbeat sent while the previous one is unacknowledged
\* is sent in status Identifying, Resuming or WaitingForGuilds.
C10_NoHeartbeatWhileUnacked ==
    \A i \in DOMAIN shard.obs.hb :
        LET e == shard.obs.hb[i]
        IN  (e.outcome = "sent" /\ ~e.acked) => e.status \in ForcedStatuses

\* C10 amended - a heartbeat sent while the previous one is unacknowledged
\* is sent in status Identifying, Resuming or WaitingForGuilds, or is the
\* first heartbeat after the jitter, or answers the gateway's request.
C10_ForcedHeartbeats ==
    \A i \in DOMAIN shard.obs.hb :
        LET e == shard.obs.hb[i]
        IN  (e.outcome = "sent" /\ ~e.acked) =>
               \/ e.status \in ForcedStatuses
               \/ e.tag \in {"HeartbeatJitter", "HeartbeatRequest"}

\* a Ready shard answers the gateway's request with the previous heartbeat
\* unacknowledged, after a timer heartbeat was forced in a waiting status
C10_Witness ==
    \E i \in DOMAIN shard.obs.hb :
        LET e == shard.obs.hb[i]
        IN  /\ e.outcome = "sent" /\ ~e.acked
            /\ e.tag = "HeartbeatRequest" /\ e.status = "READY"
            /\ e.excused

(***************************************************************************)
(* Sessions                                                                *)
(***************************************************************************)
\* C11 - identify or resume: whenever the shard decides how to identify, it
\* sends IDENTIFY if it holds no session id, and it sends RESUME only with a
\* session id and a seq that is a sequence >= 0: neither the missing
\* sequence -1 nor null.
C11_IdentifyOrResume ==
    \A i \in DOMAIN shard.obs.ident :
        LET e == shard.obs.ident[i]
        IN  /\ e.sessionId = Null => e.op = "IDENTIFY"
            /\ e.op = "RESUME" =>
                  /\ e.sessionId # Null
                  /\ e.seq >= 0

\* C12 - reconnect with resume: after the socket of a session closed with
\* last received sequence n, the RESUME of the next connect (and of every
\* later one, as long as no connection after HELLO ended in between) goes
\* to the stored resume url and carries seq = n, and RESUMED arriving on
\* the open connection leaves the shard Ready with a sequence of at least n.
C12_ReconnectWithResume ==
    /\ \A i \in DOMAIN shard.obs.ident :
          LET e == shard.obs.ident[i]
          IN  (e.op = "RESUME" /\ e.written /\ e.closedSeq # None) =>
                 /\ e.seq = e.closedSeq
                 /\ e.url # Null
    /\ \A i \in DOMAIN shard.obs.resumed :
          LET r == shard.obs.resumed[i]
          IN  (r.from # None /\ r.open) =>
                 /\ r.status = "READY"
                 /\ r.sequence >= r.from

\* RESUMED arrives for a session resumed from the highest sequence
C12_Witness ==
    \E i \in DOMAIN shard.obs.resumed :
        LET r == shard.obs.resumed[i]
        IN  /\ r.from = MaxSeq /\ r.open
            /\ r.status = "READY" /\ r.sequence = MaxSeq
            /\ shard.sockets[shard.connection].url # Null

\* C13 - session rejected: once INVALID_SESSION(false) has been handled the
\* shard is Reconnecting and holds no sequence, no session id and no resume
\* url.
C13_InvalidSessionClears ==
    (\E i \in DOMAIN shard.obs.emitted : shard.obs.emitted[i] = "INVALID_SESSION") =>
        /\ shard.status = "RECONNECTING"
        /\ shard.sequence = -1
        /\ shard.sessionId = Null
        /\ shard.resumeURL = Null

\* C14 - outbound size cap: a frame packed to more than 15 KiB is not
\* written; on an open connection SHARD_ERROR is emitted for it, nothing is
\* closed, and the connection and the status stay as they were.
C14_SizeCap ==
    \A i \in DOMAIN shard.obs.frames :
        LET f == shard.obs.frames[i]
        IN  f.size > 15 * 1024 =>
              /\ ~f.written
              /\ f.open =>
                    /\ shard.obs.emitted = <<"SHARD_ERROR">>
                    /\ shard.obs.closes = <<>>
                    /\ ConnectionOpen(shard)
                    /\ shard.status = f.status

\* a Ready shard refuses a frame one byte over the cap
C14_Witness ==
    \E i \in DOMAIN shard.obs.frames :
        LET f == shard.obs.frames[i]
        IN  /\ f.size = 15 * 1024 + 1 /\ f.open /\ f.status = "READY"
            /\ ~f.written /\ shard.obs.emitted = <<"SHARD_ERROR">>

\* C16 - destroy cancels every shard-scoped timer: when an operation has
\* destroyed the shard's connection and opened no new one, no hello timeout,
\* heartbeat interval, jittered heartbeat timeout, ready timeout or
\* invalid-session timeout is left armed.
C16_DestroyCancelsTimers ==
    (shard.obs.destroyed /\ shard.connection = Null) =>
        \A tm \in shard.timers :
            tm.kind \notin {"helloTimeout", "heartbeatInterval", "heartbeatTimeout",
                            "readyTimeout", "invalidSessionTimeout"}

\* C17 - the connect promise: a promise that listens is settled by one of
\* the five events only, resolved by READY or RESUMED and rejected by CLOSE,
\* INVALID_SESSION or DESTROYED; it was not settled before, and at its
\* settlement none of the listeners connect registered is left.  A promise
\* returned to an open, READY shard is resolved without any listener.
C17_ConnectPromise ==
    /\ \A r \in shard.obs.settled :
          /\ ~r.again
          /\ r.left = {}
          /\ r.event = "none"
                \/ \E k \in DOMAIN shard.obs.emitted :
                       EventName(shard.obs.emitted[k]) = r.event
          /\ r.how = "resolved" <=> r.event \in {"READY", "RESUMED", "none"}
          /\ r.how = "rejected" <=> r.event \in {"CLOSE", "INVALID_SESSION", "DESTROYED"}
    /\ \A i \in DOMAIN shard.promises :
          ~shard.promises[i].settled /\ shard.promises[i].listeners = ConnectEvents

\* a promise of a second connection was resolved by RESUMED
C17_Witness ==
    /\ Len(shard.sockets) = 2
    /\ \E r \in shard.obs.settled :
          r.event = "RESUMED" /\ r.how = "resolved" /\ ~r.again /\ r.left = {}

(***************************************************************************)
(* Properties of ChunkSpec                                                 *)
(***************************************************************************)

InputIds == {rd.guilds[i] : i \in DOMAIN rd.guilds}

FramesCoverInput ==
    /\ \A i \in DOMAIN rd.frames :
          /\ rd.frames[i] # {}
          /\ FrameBytes(rd.frames[i]) <= 14 * 1024
    /\ UNION {rd.frames[i] : i \in DOMAIN rd.frames} = InputIds

\* C15 as stated - whenever every guild's entry size is at most 14 KiB, every
\* frame serializes to at most 14 KiB, none is empty, and the frames' keys
\* are together the input ids.
C15_EntryBounded ==
    (\A g \in InputIds : getSubscriptionEntrySize(g) <= 14 * 1024) => FramesCoverInput

\* C15 - READY chunking: whenever every guild alone fits a frame (prefix,
\* entry and suffix are at most 14 KiB), every frame serializes to at most
\* 14 KiB, none is empty, and the frames' keys are together the input ids.
C15_Chunking ==
    (\A g \in InputIds :
        SubscriptionPayloadBaseSize + getSubscriptionEntrySize(g) <= 14 * 1024)
    => FramesCoverInput

\* three guilds that do not fit one frame were split over two full frames
C15_Witness ==
    /\ Len(rd.guilds) = 3
    /\ \A g \in InputIds :
          SubscriptionPayloadBaseSize + getSubscriptionEntrySize(g) <= 14 * 1024
    /\ Len(rd.frames) = 2
    /\ \E i \in DOMAIN rd.frames :
          Cardinality(rd.frames[i]) = 2 /\ FrameBytes(rd.frames[i]) = 14 * 1024

(***************************************************************************)
(* Properties of RestSpec                                                  *)
(***************************************************************************)

Settled(r) == rest.requests[r].pc \in {"resolved", "rejected"}

\* C18 - one call per handler: at any time at most one request of a handler
\* has its HTTP call outstanding.
C18_OneCallPerHandler ==
    \A h \in Handlers :
        Cardinality({r \in DOMAIN rest.requests :
                       rest.requests[r].handler = h /\ rest.requests[r].pc = "flight"}) <= 1

\* the retry of a request is in flight while a later request of the same
\* handler waits in the queue
C18_Witness ==
    \E r1, r2 \in DOMAIN rest.requests :
        /\ rest.requests[r1].handler = rest.requests[r2].handler
        /\ rest.requests[r1].pc = "flight" /\ rest.requests[r1].retries > 0
        /\ rest.requests[r2].pc = "queued"

\* C19 - FIFO within a handler: a request has an HTTP call issued, or is
\* anywhere past its wait in the queue, only when every request pushed
\* earlier to the same handler has settled.
C19_Fifo ==
    \A r1, r2 \in DOMAIN rest.requests :
        (/\ r1 < r2
         /\ rest.requests[r1].handler = rest.requests[r2].handler
         /\ \/ rest.requests[r2].pc \notin {"queued", "resolved", "rejected"}
            \/ \E i \in DOMAIN rest.obs.issued : rest.obs.issued[i].request = r2)
        => Settled(r1)

\* the third request of a handler has its call issued after the two before
\* it settled
C19_Witness ==
    \E i \in DOMAIN rest.obs.issued :
        LET e == rest.obs.issued[i]
        IN  /\ e.request = 3
            /\ \A r \in 1..2 : rest.requests[r].handler = e.handler /\ Settled(r)

\* the global gate at every issued call
GlobalGate ==
    \A i \in DOMAIN rest.obs.issued :
        LET e == rest.obs.issued[i]
        IN  IF e.webhook
            THEN /\ rest.globalRemaining = e.globalRemaining
                 /\ rest.globalReset = e.globalReset
            ELSE e.globalRemaining > 0 \/ e.at >= e.globalReset

\* C20 as stated - the global gate, and a webhook request never touches the
\* global counters, neither when its call is issued nor when it is answered.
C20_WebhookBypassesEntirely ==
    /\ GlobalGate
    /\ \A i \in DOMAIN rest.obs.answered :
          rest.obs.answered[i].webhook => ~rest.obs.answered[i].globalChanged

\* C20 - global gate: the call of a non-webhook request is issued only when
\* globalRemaining > 0 or now >= globalReset; the call of a webhook request
\* is issued without reading or counting against the global counters.
C20_GlobalGate == GlobalGate

\* a non-webhook call is issued with the global counter spent, its window
\* over, while a request of the other handler is waiting or in flight
C20_Witness ==
    \E i \in DOMAIN rest.obs.issued :
        LET e == rest.obs.issued[i]
        IN  /\ ~e.webhook
            /\ e.globalRemaining <= 0 /\ e.globalReset > 0 /\ e.at >= e.globalReset
            /\ \E r \in DOMAIN rest.requests :
                  /\ rest.requests[r].handler # e.handler
                  /\ rest.requests[r].pc \in {"gate", "gwait", "flight"}

\* C21 - global coalescing: at most one timer of the global delay is armed,
\* a request that starts waiting for the global limit while one is armed
\* arms no other, every waiter awaits the armed timer's promise, and when it
\* fires all the waiters resume.
C21_GlobalCoalescing ==
    /\ Cardinality(rest.globalTimers) <= 1
    /\ \A i \in DOMAIN rest.obs.waits :
          rest.obs.waits[i].armed # {} => rest.globalTimers = rest.obs.waits[i].armed
    /\ \A r \in DOMAIN rest.requests :
          rest.requests[r].pc = "gwait" =>
              /\ rest.requests[r].awaits = rest.globalDelay
              /\ \E tm \in rest.globalTimers : tm.id = rest.requests[r].awaits

\* the one timer fired and two requests of different handlers, which waited
\* for it together, resumed
C21_Witness ==
    /\ rest.globalTimers = {}
    /\ \E r1, r2 \in rest.obs.resumed :
          rest.requests[r1].handler # rest.requests[r2].handler

\* C22 - shared 429: a 429 answer of scope shared adds nothing to the
\* invalid-request count and leaves globalRemaining and globalReset as they
\* were.
C22_SharedNotCounted ==
    \A i \in DOMAIN rest.obs.answered :
        LET a == rest.obs.answered[i]
        IN  (a.kind = "429" /\ a.scope = "shared") =>
                a.invalid = 0 /\ ~a.globalChanged

\* C23 - bounded captcha and second-factor retries: no request is retried
\* more than captchaRetryLimit times for a captcha, nor more than once for a
\* second factor.
C23_BoundedCaptchaMfa ==
    \A r \in DOMAIN rest.requests :
        /\ rest.requests[r].counts.captcha <= CaptchaRetryLimit
        /\ rest.requests[r].counts.mfa <= 1

\* a request retried for a captcha captchaRetryLimit times was answered with
\* a captcha again and rejected
C23_Witness ==
    \E i \in DOMAIN rest.obs.answered :
        /\ rest.obs.answered[i].kind = "captcha"
        /\ rest.obs.answered[i].retries = CaptchaRetryLimit
        /\ rest.obs.answered[i].captchas = CaptchaRetryLimit
        /\ rest.requests[rest.obs.answered[i].request].pc = "rejected"

\* C24 - bounded retries of failures: no request is retried more than
\* retryLimit times for 5xx answers and network errors.
C24_BoundedFailureRetries ==
    \A r \in DOMAIN rest.requests : rest.requests[r].counts.failed <= RetryLimit

(***************************************************************************)
(* Properties of RouteSpec                                                 *)
(***************************************************************************)
\* a segment with sixteen digits in a row
IsIdSegment(seg) ==
    \E i \in 1..(Len(seg) - 15) : \A j \in 0..15 : seg[i + j] \in Digits

\* the positions of a chain that hold an id not directly after a major container
MinorIdPositions(chain) ==
    {i \in DOMAIN chain :
        /\ IsIdSegment(chain[i])
        /\ i = 1 \/ chain[i - 1] \notin {Channels, Guilds, Webhooks}}

\* the chains that differ from a chain in such ids only
IdVariants(chain) ==
    {[i \in DOMAIN chain |-> IF i \in DOMAIN f THEN f[i] ELSE chain[i]] :
        f \in [MinorIdPositions(chain) -> IdSegments \cup {Rep(17, "7")}]}

RECURSIVE JoinSegments(_)
\* the segments of a chain, each after a slash
JoinSegments(chain) ==
    IF chain = <<>> THEN <<>> ELSE <<"/">> \o Head(chain) \o JoinSegments(Tail(chain))

\* C25 - bucket key stability: every chain that differs from the chain
\* written only in id segments not directly after channels, guilds or
\* webhooks has the bucket route of the chain written.
C25_BucketKeyStability ==
    \A other \in IdVariants(rt.done) :
        BuildRoute(other).bucketRoute = rt.state.bucketRoute

\* channels/<id>/messages/<id> was written: the channel id is kept, the
\* message id is not, and chains with other message ids exist
C25_Witness ==
    /\ rt.todo = <<>>
    /\ rt.done = <<Channels, Rep(18, "1"), Messages, Rep(18, "2")>>
    /\ rt.state.bucketRoute = JoinSegments(<<Channels, Rep(18, "1"), Messages, IdPlaceholder>>)
    /\ \E other \in IdVariants(rt.done) : other # rt.done

\* C26 - reaction bucket freeze: once a reactions segment is written the
\* bucket route is the one reached at the first reactions segment and ends
\* with it, while the path holds every segment; the chain
\* channels/111111111111111111/messages/222222222222222222/reactions/%F0%9F%98%80/@me
\* has the bucket route /channels/111111111111111111/messages/:id/reactions.
C26_ReactionFreeze ==
    /\ \A k \in DOMAIN rt.done :
          (rt.done[k] = Reactions /\ \A j \in 1..(k - 1) : rt.done[j] # Reactions) =>
              LET bucket == rt.state.bucketRoute
                  n == Len(bucket)
              IN  /\ bucket = BuildRoute(SubSeq(rt.done, 1, k)).bucketRoute
                  /\ n >= 10
                  /\ SubSeq(bucket, n - 9, n) = <<"/">> \o Reactions
                  /\ rt.state.path = JoinSegments(rt.done)
    /\ rt.done = ExampleChain =>
          rt.state.bucketRoute =
              JoinSegments(<<Channels, Rep(18, "1"), Messages, IdPlaceholder, Reactions>>)

\* the example's chain was written to its end
C26_Witness ==
    /\ rt.done = ExampleChain
    /\ rt.todo = <<>>
    /\ rt.state.bucketFrozen

\* a 429 that is neither global nor shared was answered by the latest step
Sublimit429(a) == a.kind = "429" /\ ~a.global /\ a.scope # "shared"

\* the request sleeps retry-after and is then retried, and the handler holds
\* the remaining and the reset of the response's headers
SublimitHandled(a) ==
    LET q == rest.requests[a.request]
        handler == rest.handlers[q.handler]
    IN  /\ q.pc = "sublimit"
        /\ q.wake = now + RetryAfter
        /\ handler.remaining = (CASE a.bucket = "none" -> 1
                                  [] a.bucket = "spent" -> 0
                                  [] a.bucket = "left" -> RemainingLeft)
        /\ handler.reset = (IF a.bucket = "none" THEN now ELSE now + ResetAfter)

\* C27 as stated - every 429 that is neither global nor shared and carries
\* retry-after is slept out for retry-after and leaves the handler's
\* remaining and reset as its headers give them.
C27_EverySublimitSleeps ==
    \A i \in DOMAIN rest.obs.answered :
        Sublimit429(rest.obs.answered[i]) => SublimitHandled(rest.obs.answered[i])

\* C27 - 429 sublimit: a 429 that is neither global nor shared, carries
\* retry-after and whose own headers do not leave the handler limited
\* (x-ratelimit-remaining above 0, or no reset ahead) is slept out for
\* retry-after and retried, and the handler's remaining and reset are those of
\* the headers: remaining 4 and reset now + reset-after in the example.
C27_Sublimit ==
    \A i \in DOMAIN rest.obs.answered :
        LET a == rest.obs.answered[i]
        IN  (Sublimit429(a) /\ a.bucket # "spent") => SublimitHandled(a)

\* the example: a 429 with retry-after, x-ratelimit-remaining 4 and a
\* reset-after was answered
C27_Witness ==
    \E i \in DOMAIN rest.obs.answered :
        LET a == rest.obs.answered[i]
        IN  /\ Sublimit429(a) /\ a.bucket = "left"
            /\ rest.handlers[rest.requests[a.request].handler].remaining = RemainingLeft
            /\ rest.requests[a.request].pc = "sublimit"

\* C28 - close watchdog: when the watchdog fires and the connection that the
\* latest destroy() closed has given no close event, CLOSE with code 4009 is
\* emitted.
C28_WatchdogEmitsClose ==
    (/\ shard.obs.fired = "wsCloseTimeout"
     /\ shard.obs.watched # Null
     /\ shard.sockets[shard.obs.watched].readyState = "CLOSING")
        => \E k \in DOMAIN shard.obs.emitted : shard.obs.emitted[k] = "CLOSE_4009"

\* C29 - zombie connection: the IDENTIFY or RESUME that follows the teardown
\* of a zombie connection declared with a session id known is a RESUME with
\* that session id, and the teardown closes with code 4009.
C29_ZombieResumes ==
    /\ \A i \in DOMAIN shard.obs.hb :
          shard.obs.hb[i].outcome = "zombie" =>
              \A k \in DOMAIN shard.obs.closes : shard.obs.closes[k].code = 4009
    /\ \A i \in DOMAIN shard.obs.ident :
          LET e == shard.obs.ident[i]
          IN  e.zombie # Null => e.op = "RESUME" /\ e.sessionId = e.zombie

PendingKey(q) == RouteKey(q.method, q.route)

\* C31 as stated - before discovery the handler is keyed by the bucket route
\* together with the method: requests under way for two different keys
\* (method, route), neither bound to a hash, are on two different handlers.
C31_KeyedByMethodAndRoute ==
    \A i, j \in DOMAIN bk.pending :
        /\ PendingKey(bk.pending[i]) # PendingKey(bk.pending[j])
        /\ bk.routeBuckets[PendingKey(bk.pending[i])] = NoHash
        /\ bk.routeBuckets[PendingKey(bk.pending[j])] = NoHash
        => bk.pending[i].handler # bk.pending[j].handler

\* C31 - handler selection: a request whose (method, route) is bound to no
\* hash is served by the handler registered under its bucket route, whatever
\* its method, and by a new handler when there is none; a request whose
\* (method, route) is bound to a hash is served by the one handler registered
\* under that hash, which stays registered under it.
C31_HandlerSelection ==
    bk.obs.handler # Null =>
        /\ bk.obs.hash = NoHash =>
              IF bk.obs.byRoute # Null
              THEN bk.obs.handler = bk.obs.byRoute /\ ~bk.obs.fresh
              ELSE bk.obs.fresh
        /\ bk.obs.hash # NoHash =>
              /\ bk.obs.registered # Null
              /\ bk.obs.handler = bk.obs.registered
              /\ ~bk.obs.fresh
              /\ bk.bucketHandlers[bk.obs.hash] = bk.obs.handler

\* a request bound to a hash was served by the handler registered under the
\* hash although another handler was registered under its route
C31_Witness ==
    /\ bk.obs.handler # Null
    /\ bk.obs.hash # NoHash
    /\ bk.obs.byRoute # Null
    /\ bk.obs.byRoute # bk.obs.handler

(***************************************************************************)
(* Properties of FlowSpec                                                  *)
(***************************************************************************)
\* the latest operation handed the normal frame n to the shard's _send
NormalDispatched(n) ==
    \E i \in DOMAIN sched.log : sched.log[i].id = n /\ ~sched.log[i].important

\* C32 - normal traffic is not starved: on a connection that stays open,
\* with tokens refilled as time passes, a pending normal frame is eventually
\* dispatched however many important frames are enqueued meanwhile.
C32_NormalNotStarved ==
    \A n \in 1..(MaxQueued + 1) : (n \in sched.pendN) ~> NormalDispatched(n)

\* a normal frame is dispatched with an important frame left waiting, after
\* ImportantBurst important frames went before it
C32_Witness ==
    \E i \in DOMAIN sched.log :
        /\ ~sched.log[i].important
        /\ sched.log[i].pendI # {}
        /\ sched.log[i].impRun = ImportantBurst
        /\ sched.log[i].tokens < 2 * OneToken

(***************************************************************************)
(* Properties of HbSpec: the stored sequence                               *)
(***************************************************************************)
\* C33 - the stored sequence within a connection: a packet does not lower
\* the stored sequence, and a packet whose s is null or not above the stored
\* sequence leaves it as it was.
C33_SequenceNeverDecreases ==
    \A i \in DOMAIN shard.obs.packet :
        LET p == shard.obs.packet[i]
        IN  ~shard.obs.destroyed =>
              /\ shard.sequence >= p.before
              /\ (p.s = Null \/ p.s <= p.before) => shard.sequence = p.before

\* C34 - a shard that is Ready or waiting for guilds holds a connection:
\* whenever the status is READY or WAITING_FOR_GUILDS the connection handle
\* is not null, so that no ready timeout and no deferred checkReady() makes
\* a destroyed shard Ready.
C34_ReadyHoldsConnection ==
    shard.status \in {"READY", "WAITING_FOR_GUILDS"} => shard.connection # Null

\* C35 - at most one CLOSE for a connection: when the close event of a socket
\* makes the shard emit CLOSE, the close timeout has not just emitted a CLOSE
\* with code 4009 for the connection of that socket.
C35_OneClosePerConnection ==
    \A i \in DOMAIN shard.obs.closed :
        LET c == shard.obs.closed[i]
        IN  (\E k \in DOMAIN shard.obs.emitted : shard.obs.emitted[k] = "CLOSE")
                => c.synth # c.socket

(***************************************************************************)
(* Properties of ChunkSpec: the frames as a partition of the input         *)
(***************************************************************************)

\* the frames whose subscriptions object has the key of the p-th guild
FramesOf(p) == {i \in DOMAIN rd.frames : rd.guilds[p] \in rd.frames[i]}

DistinctIds == \A p, q \in DOMAIN rd.guilds : p # q => rd.guilds[p] # rd.guilds[q]

\* C36 - the chunker partitions its input: for a READY payload of distinct
\* guild ids every id is a key of exactly one frame, every key of a frame is
\* an id of the payload, and an id that comes later in the payload is never
\* in an earlier frame than one that comes before it.
C36_Partition ==
    DistinctIds =>
        /\ \A p \in DOMAIN rd.guilds : Cardinality(FramesOf(p)) = 1
        /\ \A i \in DOMAIN rd.frames : rd.frames[i] \subseteq InputIds
        /\ \A p, q \in DOMAIN rd.guilds :
              p < q => \A i \in FramesOf(p), j \in FramesOf(q) : i <= j

\* three distinct guilds went into several frames, one of them holding two
C36_Witness ==
    /\ Len(rd.guilds) = 3
    /\ DistinctIds
    /\ Len(rd.frames) >= 2
    /\ \E i \in DOMAIN rd.frames : Cardinality(rd.frames[i]) = 2

(***************************************************************************)
(* Properties of ConserveSpec                                              *)
(***************************************************************************)
PendingFrames == sched.pendI \cup sched.pendN

\* an operation of the scheduler hands to shard._send only frames that were
\* waiting or that it enqueued itself, each of them once, and a frame stops
\* waiting only by being handed over
DispatchedOnce ==
    /\ \A i, j \in DOMAIN sched'.log : sched'.log[i].id = sched'.log[j].id => i = j
    /\ LogIds(sched') \subseteq PendingFrames \cup nextFrame..(nextFrame' - 1)
    /\ LogIds(sched') \cap (sched'.pendI \cup sched'.pendN) = {}
    /\ PendingFrames \ (sched'.pendI \cup sched'.pendN) \subseteq LogIds(sched')

\* C37 - frame conservation: on a connection that stays open and is never
\* cleared, every enqueued frame is eventually passed to shard._send, and it
\* is passed exactly once - no operation sends a frame that is not waiting,
\* sends a frame twice or drops one - also when a listener calls
\* shard.send() from inside shard._send().
C37_FrameConservation ==
    /\ [][DispatchedOnce]_vars
    /\ \A n \in 1..(ConserveFrames + 1) : (n \in PendingFrames) ~> (n \in LogIds(sched))

\* a nested process() has sent a frame of its own inside the outer loop's
\* shard._send(), and the outer loop's token took the count below zero
C37_Witness ==
    /\ Len(sched.log) >= 2
    /\ sched.tokens < 0
    /\ PendingFrames # {}

(***************************************************************************)
(* Properties of RestSpec: the retry limit on the shared counter           *)
(***************************************************************************)
\* C38 - a failure at or above the limit is final: a 5xx answer or a network
\* error that finds the request's retries counter at or above retryLimit
\* rejects the request instead of retrying it, whatever answers raised the
\* counter before.
C38_FailureAtLimitRejects ==
    \A i \in DOMAIN rest.obs.answered :
        LET a == rest.obs.answered[i]
        IN  (a.kind \in {"error", "5xx"} /\ a.retries >= RetryLimit) =>
                rest.requests[a.request].pc = "rejected"

(***************************************************************************)
(* Properties of SettleSpec                                                *)
(***************************************************************************)
\* C39 - handler queue progress: a request that has settled, by whatever
\* path, holds no slot of its handler's queue, and the request at the head
\* of a queue has been let through by wait(); so every request still waiting
\* in a queue has a request ahead of it that has started and not settled.
C39_QueueProgress ==
    /\ \A h \in Handlers :
          LET queue == rest.handlers[h].queue
          IN  /\ \A i \in DOMAIN queue : ~Settled(queue[i])
              /\ queue # <<>> => rest.requests[Head(queue)].pc # "queued"
    /\ \A r \in DOMAIN rest.requests :
          rest.requests[r].pc = "queued" =>
              \E i \in 2..Len(rest.handlers[rest.requests[r].handler].queue) :
                  rest.handlers[rest.requests[r].handler].queue[i] = r

\* a request was rejected, the one queued behind it has been let through,
\* and a third waits behind that one
C39_Witness ==
    \E h \in Handlers, r1, r2, r3 \in DOMAIN rest.requests :
        /\ rest.requests[r1].handler = h /\ rest.requests[r1].pc = "rejected"
        /\ r1 < r2
        /\ rest.handlers[h].queue = <<r2, r3>>
        /\ rest.requests[r2].pc = "gate"
        /\ rest.requests[r3].pc = "queued"

(***************************************************************************)
(* Properties of ReadySpec: the promotions of a session                    *)
(***************************************************************************)
AllReadyEmitted == {k \in DOMAIN shard.obs.emitted : shard.obs.emitted[k] = "ALL_READY"}

\* C40 - ALL_READY once per session start: a ready check or a ready timeout
\* emits ALL_READY at most once, and not directly after another one emitted
\* it, with no READY, RESUMED or destroy() between the two.
C40_AllReadyOnce ==
    /\ Cardinality(AllReadyEmitted) <= 1
    /\ ~shard.obs.repeated

=============================================================================
